---- MODULE Spec2Model ----
(***************************************************************************)
(* State-machine model of the ts-cache in-memory engines:                  *)
(*   MemoryDriver     (src/src/drivers/memory.ts)                          *)
(*   MemoryLRUDriver  (src/src/drivers/memory-lru.ts)                      *)
(*   CacheManager     (src/src/manager.ts), the parts built on a driver    *)
(*   Cache            (src/unnamed/part_011), the legacy synchronous class *)
(*   RateLimiter, CacheLock (src/unnamed/part_012), built on a manager     *)
(* Every driver method is an async function without an await in its body   *)
(* (mset and deleteByTag excepted), so one call is one atomic action.      *)
(* Date.now() is the variable now, advanced by Tick.                       *)
(***************************************************************************)
EXTENDS Integers, Sequences, FiniteSets, TLC

\* ------------------------------------------------------------------ inputs
Keys == {"a", "b", "c"}
Keys2 == {"a", "b"}
\* Date.now() when the engine is constructed
StartTime == 10000
Tags == {"t"}
Tasks == {1, 2}
\* the identifiers given to RateLimiter.check
Identifiers == {"u1", "u2"}

\* JavaScript values: type tag plus the size-relevant number
\* (string: length, array: length, object: number of own keys).
StrVal == [type |-> "string", n |-> 2]
NumVal == [type |-> "number", n |-> 7]
Undefined == [type |-> "undefined", n |-> 0]
NullVal == [type |-> "null", n |-> 0]
Values == {StrVal, NumVal}

\* an optional ttl argument: <<>> is "not passed", <<n>> is n seconds
NoTtl == <<>>
Ttls == {NoTtl, <<0>>, <<1>>}

Nil == "<nil>"
Keep == "<keep>"

\* bounds of the exploration
MaxTicks == 2
MaxReads == 1
MaxTakeReads == 2
MaxLeak == 1
MaxChecks == 4
MaxWait == 2

VARIABLES
  cfg,          \* this.options (fixed at construction)
  now,          \* Date.now()
  data,         \* this.data: full key -> WrappedValue [t, v]
  dataMap,      \* legacy Cache: this.dataMap, used when maxPerformance is set
  head, tail,   \* MemoryLRUDriver.head / tail (Nil = null)
  prev, next,   \* LRUNode.prev / next of the node of each stored key
  stats,        \* this.stats
  tags,         \* this.tags: tag -> set of full keys
  checkTimeout, \* time at which the pending sweep timer is due, -1: no timer
  pend,         \* the driver call suspended at an await (mset, deleteByTag)
  task,         \* CacheManager calls suspended at an await, one per caller
  obs,          \* which history variables this specification records
  used,         \* history: stored keys, most recent get hit or set first
  run,          \* history: the keys of the sets made in a row, all distinct
  shadow,       \* history: key -> [v, t] of its last write, while it should be live
  taken,        \* history: key -> number of takes that returned its stored value
  closed,       \* history: close() has been called and has returned
  marked,       \* history: <<key, tag>> of the tag() calls on a key live ever since
  held,         \* the object an earlier getStats() returned, in its caller's hands
  heldWas,      \* history: the fields that object got from getStats() and its caller
  allowed       \* history: identifier -> checks that returned limited = false

evars == <<data, dataMap, head, tail, prev, next, stats, tags>>

hvars == <<used, run, shadow, taken, marked, heldWas, allowed>>

vars == <<cfg, now, data, dataMap, head, tail, prev, next, stats, tags, checkTimeout, pend,
          task, obs, used, run, shadow, taken, closed, marked, held, heldWas,
          allowed>>

\* ------------------------------------------------------------ small helpers
Put(f, k, x) == [y \in DOMAIN f \cup {k} |-> IF y = k THEN x ELSE f[y]]

Drop(f, k) == [y \in DOMAIN f \ {k} |-> f[y]]

ZeroStats == [hits |-> 0, misses |-> 0, keys |-> 0, ksize |-> 0, vsize |-> 0]

\* the engine state as one record, so that helpers compose like the methods
Eng == [data |-> data, dataMap |-> dataMap, head |-> head, tail |-> tail,
        prev |-> prev, next |-> next, stats |-> stats, tags |-> tags]

\* The counters have no upper limit in the code.  The exploration stops a call
\* that would take hits + misses above the configuration's `reads` (MaxReads,
\* or MaxTakeReads where two takes must both read), or would take ksize / vsize
\* further from the sizes of the stored entries than the configuration's `leak`
\* entries account for (MaxLeak, more in the run where every entry is left to
\* the sweep).
RECURSIVE SumOver(_, _, _)
SumOver(f, S, acc) ==
  IF S = {} THEN acc
  ELSE LET x == CHOOSE y \in S : TRUE
       IN SumOver(f, S \ {x}, acc + f[x])

Bounded(e) ==
  LET st == IF cfg.maxPerformance THEN e.dataMap ELSE e.data
      dk == e.stats.ksize
            - SumOver([k \in DOMAIN st |-> Len(k) - (IF cfg.prefix = "" THEN 0
                                                     ELSE Len(cfg.prefix) + 1)],
                      DOMAIN st, 0)
      dv == e.stats.vsize
            - SumOver([k \in DOMAIN st |-> IF st[k].v.type = "string"
                                            THEN st[k].v.n ELSE 8],
                      DOMAIN st, 0)
  IN /\ e.stats.hits + e.stats.misses <= cfg.reads
     /\ dk >= -2 * cfg.leak
     /\ dk <= cfg.leak
     /\ dv >= -8 * cfg.leak
     /\ dv <= 8 * cfg.leak

Install(e) ==
  /\ Bounded(e)
  /\ data' = e.data
  /\ dataMap' = e.dataMap
  /\ head' = e.head
  /\ tail' = e.tail
  /\ prev' = e.prev
  /\ next' = e.next
  /\ stats' = e.stats
  /\ tags' = e.tags

IsLRU == cfg.driver = "lru"

\* ------------------------------------------------------------ key handling
getFullKey(key) == IF cfg.prefix # "" THEN cfg.prefix \o ":" \o key ELSE key

stripPrefix(fullKey) ==
  LET p == cfg.prefix \o ":" IN
  IF cfg.prefix # "" /\ Len(fullKey) >= Len(p) /\ SubSeq(fullKey, 1, Len(p)) = p
  THEN SubSeq(fullKey, Len(p) + 1, Len(fullKey))
  ELSE fullKey

getKeySize(key) == Len(key)

getValueSize(value) ==
  IF value.type = "string" THEN value.n
  ELSE IF value.type \in {"number", "boolean"} THEN 8
  ELSE IF value.type = "array" THEN 40 * value.n
  ELSE IF value.type = "object" THEN 80 * value.n
  ELSE 0

\* clone() of a primitive is the primitive itself
clone(value) == value

\* wrap without the `ttl === 0` case: 0 is taken as a number of seconds
wrap_zeroIsSeconds(value, ttl, asClone) ==
  LET expiry == IF ttl # NoTtl THEN now + ttl[1] * 1000
                ELSE IF cfg.stdTTL = 0 THEN 0
                ELSE now + cfg.stdTTL * 1000
  IN [t |-> expiry, v |-> IF asClone /\ cfg.useClones THEN clone(value) ELSE value]

wrap(value, ttl, asClone) ==
  LET expiry == IF ttl = <<0>> THEN 0
                ELSE IF ttl # NoTtl THEN now + ttl[1] * 1000
                ELSE IF cfg.stdTTL = 0 THEN 0
                ELSE now + cfg.stdTTL * 1000
  IN [t |-> expiry, v |-> IF asClone /\ cfg.useClones THEN clone(value) ELSE value]

unwrap(wrapped, asClone) ==
  IF wrapped.v # Undefined
  THEN (IF asClone /\ cfg.useClones THEN clone(wrapped.v) ELSE wrapped.v)
  ELSE NullVal

\* ------------------------------------------------------------ the LRU list
\* removeNode that leaves this.tail where it was
removeNode_keepsTail(e, n) ==
  LET e1 == IF e.prev[n] # Nil
            THEN [e EXCEPT !.next[e.prev[n]] = e.next[n]]
            ELSE [e EXCEPT !.head = e.next[n]]
      e2 == IF e.next[n] # Nil
            THEN [e1 EXCEPT !.prev[e.next[n]] = e.prev[n]]
            ELSE e1
  IN e2

removeNode(e, n) ==
  LET e1 == IF e.prev[n] # Nil
            THEN [e EXCEPT !.next[e.prev[n]] = e.next[n]]
            ELSE [e EXCEPT !.head = e.next[n]]
      e2 == IF e.next[n] # Nil
            THEN [e1 EXCEPT !.prev[e.next[n]] = e.prev[n]]
            ELSE [e1 EXCEPT !.tail = e.prev[n]]
  IN e2

addToHead(e, n) ==
  LET e1 == [e EXCEPT !.next = Put(e.next, n, e.head), !.prev = Put(e.prev, n, Nil)]
      e2 == IF e.head # Nil THEN [e1 EXCEPT !.prev[e.head] = n] ELSE e1
      e3 == [e2 EXCEPT !.head = n]
  IN IF e3.tail = Nil THEN [e3 EXCEPT !.tail = n] ELSE e3

\* moveToHead that leaves the node where it is
moveToHead_stays(e, n) == e

moveToHead(e, n) == addToHead(removeNode(e, n), n)

\* a node that left the list and the map is garbage: forget its links
dropNode(e, n) == [e EXCEPT !.prev = Drop(e.prev, n), !.next = Drop(e.next, n)]

\* ------------------------------------------------------------ expiry
\* checkExpiry: the result and the engine after the call
\* checkExpiry that deletes an expired entry whatever deleteOnExpire says
checkExpiry_alwaysDeletes(e, key, w) ==
  IF w.t # 0 /\ w.t < now
  THEN IF IsLRU
       THEN IF key \in DOMAIN e.data
            THEN [ok |-> FALSE,
                  e |-> LET r == dropNode(removeNode(e, key), key)
                        IN [r EXCEPT !.data = Drop(r.data, key),
                                     !.stats.keys = r.stats.keys - 1]]
            ELSE [ok |-> FALSE, e |-> e]
       ELSE [ok |-> FALSE,
             e |-> [e EXCEPT !.data = Drop(e.data, key),
                             !.stats.keys = e.stats.keys - 1]]
  ELSE [ok |-> TRUE, e |-> e]

\* checkExpiry that removes the entry and leaves stats.keys as it is
checkExpiry_keepsCount(e, key, w) ==
  IF w.t # 0 /\ w.t < now /\ cfg.deleteOnExpire
  THEN IF IsLRU
       THEN IF key \in DOMAIN e.data
            THEN [ok |-> FALSE,
                  e |-> LET r == dropNode(removeNode(e, key), key)
                        IN [r EXCEPT !.data = Drop(r.data, key)]]
            ELSE [ok |-> FALSE, e |-> e]
       ELSE [ok |-> FALSE, e |-> [e EXCEPT !.data = Drop(e.data, key)]]
  ELSE [ok |-> TRUE, e |-> e]

checkExpiry(e, key, w) ==
  IF w.t # 0 /\ w.t < now /\ cfg.deleteOnExpire
  THEN IF IsLRU
       THEN IF key \in DOMAIN e.data
            THEN [ok |-> FALSE,
                  e |-> LET r == dropNode(removeNode(e, key), key)
                        IN [r EXCEPT !.data = Drop(r.data, key),
                                     !.stats.keys = r.stats.keys - 1]]
            ELSE [ok |-> FALSE, e |-> e]
       ELSE [ok |-> FALSE,
             e |-> [e EXCEPT !.data = Drop(e.data, key),
                             !.stats.keys = e.stats.keys - 1]]
  ELSE [ok |-> TRUE, e |-> e]

\* `this.data[fullKey] && this.checkExpiry(fullKey, this.data[fullKey])`
liveCheck(e, fullKey) ==
  IF fullKey \in DOMAIN e.data
  THEN checkExpiry(e, fullKey, e.data[fullKey])
  ELSE [ok |-> FALSE, e |-> e]

\* checkAllData: one pass over every stored key
RECURSIVE checkAll(_, _)
checkAll(e, ks) ==
  IF ks = {} THEN e
  ELSE LET k == CHOOSE x \in ks : TRUE
       IN checkAll(IF k \in DOMAIN e.data THEN checkExpiry(e, k, e.data[k]).e ELSE e,
                   ks \ {k})

\* checkAllData that looks at no entry
checkAllData_skips(e) == e

checkAllData(e) == checkAll(e, DOMAIN e.data)

\* ------------------------------------------------------------ driver methods
\* each returns [e |-> engine after the call, ret |-> returned value,
\*               threw |-> the call rejected]
Ret(e, r) == [e |-> e, ret |-> r, threw |-> FALSE]

Threw(e) == [e |-> e, ret |-> Nil, threw |-> TRUE]

get(e, key) ==
  LET fullKey == getFullKey(key)
      c == liveCheck(e, fullKey)
  IN IF c.ok
     THEN LET e1 == [c.e EXCEPT !.stats.hits = c.e.stats.hits + 1]
              e2 == IF IsLRU THEN moveToHead(e1, fullKey) ELSE e1
          IN Ret(e2, unwrap(e2.data[fullKey], TRUE))
     ELSE Ret([c.e EXCEPT !.stats.misses = c.e.stats.misses + 1], Undefined)

\* evictLRU that removes the head of the list instead of its tail
evictLRU_head(e) ==
  IF e.head = Nil THEN e
  ELSE LET removed == e.head
           w == e.data[removed]
           e1 == dropNode(removeNode(e, removed), removed)
       IN [e1 EXCEPT !.data = Drop(e1.data, removed),
                     !.stats.vsize = e1.stats.vsize - getValueSize(unwrap(w, FALSE)),
                     !.stats.ksize = e1.stats.ksize - getKeySize(removed),
                     !.stats.keys = e1.stats.keys - 1]

evictLRU(e) ==
  IF e.tail = Nil THEN e
  ELSE LET removed == e.tail
           w == e.data[removed]
           e1 == dropNode(removeNode(e, removed), removed)
       IN [e1 EXCEPT !.data = Drop(e1.data, removed),
                     !.stats.vsize = e1.stats.vsize - getValueSize(unwrap(w, FALSE)),
                     !.stats.ksize = e1.stats.ksize - getKeySize(removed),
                     !.stats.keys = e1.stats.keys - 1]

\* set that lets one key more in: `>` in place of `>=` in the capacity check
setMemory_oneMore(e, key, value, ttl) ==
  IF cfg.maxKeys > -1 /\ e.stats.keys > cfg.maxKeys
  THEN Threw(e)
  ELSE LET fullKey == getFullKey(key)
           existed == fullKey \in DOMAIN e.data
           e1 == IF existed
                 THEN [e EXCEPT !.stats.vsize =
                         e.stats.vsize - getValueSize(unwrap(e.data[fullKey], FALSE))]
                 ELSE e
           e2 == [e1 EXCEPT !.data = Put(e1.data, fullKey, wrap(value, ttl, TRUE)),
                            !.stats.vsize = e1.stats.vsize + getValueSize(value)]
           e3 == IF ~existed
                 THEN [e2 EXCEPT !.stats.ksize = e2.stats.ksize + getKeySize(key),
                                 !.stats.keys = e2.stats.keys + 1]
                 ELSE e2
       IN Ret(e3, TRUE)

setMemory(e, key, value, ttl) ==
  IF cfg.maxKeys > -1 /\ e.stats.keys >= cfg.maxKeys
  THEN Threw(e)
  ELSE LET fullKey == getFullKey(key)
           existed == fullKey \in DOMAIN e.data
           e1 == IF existed
                 THEN [e EXCEPT !.stats.vsize =
                         e.stats.vsize - getValueSize(unwrap(e.data[fullKey], FALSE))]
                 ELSE e
           e2 == [e1 EXCEPT !.data = Put(e1.data, fullKey, wrap(value, ttl, TRUE)),
                            !.stats.vsize = e1.stats.vsize + getValueSize(value)]
           e3 == IF ~existed
                 THEN [e2 EXCEPT !.stats.ksize = e2.stats.ksize + getKeySize(key),
                                 !.stats.keys = e2.stats.keys + 1]
                 ELSE e2
       IN Ret(e3, TRUE)

\* setLRU without the eviction of a key when the store is full
setLRU_neverEvicts(e, key, value, ttl) ==
  LET fullKey == getFullKey(key)
      existing == fullKey \in DOMAIN e.data
      e1 == IF existing
            THEN LET r == removeNode(e, fullKey)
                 IN [r EXCEPT !.stats.vsize =
                       r.stats.vsize - getValueSize(unwrap(e.data[fullKey], FALSE))]
            ELSE e
      e2 == addToHead(e1, fullKey)
      e3 == [e2 EXCEPT !.data = Put(e2.data, fullKey, wrap(value, ttl, TRUE)),
                       !.stats.vsize = e2.stats.vsize + getValueSize(value)]
      e4 == IF ~existing
            THEN [e3 EXCEPT !.stats.ksize = e3.stats.ksize + getKeySize(key),
                            !.stats.keys = e3.stats.keys + 1]
            ELSE e3
  IN Ret(e4, TRUE)

setLRU(e, key, value, ttl) ==
  LET fullKey == getFullKey(key)
      existing == fullKey \in DOMAIN e.data
      e1 == IF existing
            THEN LET r == removeNode(e, fullKey)
                 IN [r EXCEPT !.stats.vsize =
                       r.stats.vsize - getValueSize(unwrap(e.data[fullKey], FALSE))]
            ELSE IF cfg.maxKeys > 0 /\ e.stats.keys >= cfg.maxKeys
                 THEN evictLRU(e)
                 ELSE e
      e2 == addToHead(e1, fullKey)
      e3 == [e2 EXCEPT !.data = Put(e2.data, fullKey, wrap(value, ttl, TRUE)),
                       !.stats.vsize = e2.stats.vsize + getValueSize(value)]
      e4 == IF ~existing
            THEN [e3 EXCEPT !.stats.ksize = e3.stats.ksize + getKeySize(key),
                            !.stats.keys = e3.stats.keys + 1]
            ELSE e3
  IN Ret(e4, TRUE)

set(e, key, value, ttl) ==
  IF IsLRU THEN setLRU(e, key, value, ttl) ELSE setMemory(e, key, value, ttl)

\* mset's capacity check (MemoryDriver only; the LRU driver's mset has none)
msetThrows_never(e, entries) == FALSE

msetThrows(e, entries) ==
  ~IsLRU /\ cfg.maxKeys > -1 /\ e.stats.keys + Len(entries) >= cfg.maxKeys

\* mset with no other call between its turns: the check, then set after set
\* until one throws
RECURSIVE msetLoop(_, _)
msetLoop(e, entries) ==
  IF entries = <<>> THEN Ret(e, TRUE)
  ELSE LET r == set(e, Head(entries).key, Head(entries).value, Head(entries).ttl)
       IN IF r.threw THEN r ELSE msetLoop(r.e, Tail(entries))

msetRun(e, entries) ==
  IF msetThrows(e, entries) THEN Threw(e) ELSE msetLoop(e, entries)

\* mget: the loop over the key array; ret is the set of <<key, value>> found
RECURSIVE mgetLoop(_, _, _)
mgetLoop(e, keys, result) ==
  IF keys = <<>> THEN Ret(e, result)
  ELSE LET key == Head(keys)
           fullKey == getFullKey(key)
           c == liveCheck(e, fullKey)
       IN IF c.ok
          THEN LET e1 == [c.e EXCEPT !.stats.hits = c.e.stats.hits + 1]
                   e2 == IF IsLRU THEN moveToHead(e1, fullKey) ELSE e1
               IN mgetLoop(e2, Tail(keys),
                           {p \in result : p[1] # key}
                             \cup {<<key, unwrap(e2.data[fullKey], TRUE)>>})
          ELSE mgetLoop([c.e EXCEPT !.stats.misses = c.e.stats.misses + 1],
                        Tail(keys), result)

mget(e, keys) == mgetLoop(e, keys, {})

\* `this.tags.forEach(keySet => keySet.delete(fullKey))`
\* untag that leaves the tag index as it is
untag_keeps(tg, fullKey) == tg

untag(tg, fullKey) == [t \in DOMAIN tg |-> tg[t] \ {fullKey}]

\* del: the loop over the key array; ret is deletedCount
RECURSIVE delLoop(_, _, _)
delLoop(e, keys, deletedCount) ==
  IF keys = <<>> THEN Ret(e, deletedCount)
  ELSE LET key == Head(keys)
           fullKey == getFullKey(key)
       IN IF fullKey \in DOMAIN e.data
          THEN LET e0 == IF IsLRU THEN dropNode(removeNode(e, fullKey), fullKey) ELSE e
                   e1 == [e0 EXCEPT
                            !.stats.vsize = e.stats.vsize
                                            - getValueSize(unwrap(e.data[fullKey], FALSE)),
                            !.stats.ksize = e.stats.ksize - getKeySize(key),
                            !.stats.keys = e.stats.keys - 1,
                            !.data = Drop(e.data, fullKey),
                            !.tags = untag(e.tags, fullKey)]
               IN delLoop(e1, Tail(keys), deletedCount + 1)
          ELSE delLoop(e, Tail(keys), deletedCount)

\* del that reports the number of keys it was given
del_countsListed(e, keys) == [delLoop(e, keys, 0) EXCEPT !.ret = Len(keys)]

del(e, keys) == delLoop(e, keys, 0)

\* has that counts a miss for a key it does not find
has_countsMiss(e, key) ==
  LET c == liveCheck(e, getFullKey(key))
  IN Ret(IF c.ok THEN c.e ELSE [c.e EXCEPT !.stats.misses = c.e.stats.misses + 1], c.ok)

has(e, key) ==
  LET c == liveCheck(e, getFullKey(key)) IN Ret(c.e, c.ok)

\* keys(): filter every stored key through checkExpiry, strip the prefix
RECURSIVE keysLoop(_, _, _)
keysLoop(e, fullKeys, result) ==
  IF fullKeys = {} THEN Ret(e, result)
  ELSE LET fullKey == CHOOSE x \in fullKeys : TRUE
           c == checkExpiry(e, fullKey, e.data[fullKey])
       IN keysLoop(c.e, fullKeys \ {fullKey},
                   IF c.ok THEN result \cup {stripPrefix(fullKey)} ELSE result)

keys_(e) == keysLoop(e, DOMAIN e.data, {})

\* getTtl that marks the key it found as recently used
getTtl_movesToHead(e, key) ==
  LET fullKey == getFullKey(key)
      c == liveCheck(e, fullKey)
  IN IF c.ok
     THEN Ret(IF IsLRU THEN moveToHead(c.e, fullKey) ELSE c.e, <<c.e.data[fullKey].t>>)
     ELSE Ret(c.e, <<>>)

\* getTtl: ret is <<t>> or <<>> for undefined
getTtl(e, key) ==
  LET fullKey == getFullKey(key)
      c == liveCheck(e, fullKey)
  IN IF c.ok THEN Ret(c.e, <<c.e.data[fullKey].t>>) ELSE Ret(c.e, <<>>)

ttl_(e, key, secs) ==
  LET fullKey == getFullKey(key)
      c == liveCheck(e, fullKey)
  IN IF c.ok
     THEN LET e1 == [c.e EXCEPT !.data[fullKey] = wrap(c.e.data[fullKey].v, <<secs>>, FALSE)]
          IN Ret(IF IsLRU THEN moveToHead(e1, fullKey) ELSE e1, TRUE)
     ELSE Ret(c.e, FALSE)

\* flush that forgets to clear the tag index
flush_keepsTags(e) ==
  [e EXCEPT !.data = <<>>, !.head = Nil, !.tail = Nil, !.prev = <<>>, !.next = <<>>,
            !.stats = ZeroStats]

flush(e) ==
  [e EXCEPT !.data = <<>>, !.head = Nil, !.tail = Nil, !.prev = <<>>, !.next = <<>>,
            !.tags = <<>>, !.stats = ZeroStats]

\* getStats: `{ ...this.stats }`, the fields of a new object
getStats(e) == e.stats

\* a Stats object in a caller's hands: a new object with fields of its own
\* (copy), or the engine's own this.stats (alias); NoObject before any call
NoObject == [kind |-> "none", val |-> ZeroStats]

NewObject(fields) == [kind |-> "copy", val |-> fields]

ThisStats == [kind |-> "alias", val |-> ZeroStats]

\* the fields read through an object reference
Deref(e, h) == IF h.kind = "alias" THEN e.stats ELSE h.val

\* `obj[f] = n` by the caller: the engine and the object afterwards
writeHeld(e, h, f, n) ==
  IF h.kind = "alias"
  THEN [e |-> [e EXCEPT !.stats = [e.stats EXCEPT ![f] = n]], h |-> h]
  ELSE [e |-> e, h |-> [h EXCEPT !.val = [h.val EXCEPT ![f] = n]]]

\* getKeysByTag: ret is the set of live tagged keys, prefix stripped
RECURSIVE tagLoop(_, _, _)
tagLoop(e, fullKeys, result) ==
  IF fullKeys = {} THEN Ret(e, result)
  ELSE LET fullKey == CHOOSE x \in fullKeys : TRUE
           c == liveCheck(e, fullKey)
       IN tagLoop(c.e, fullKeys \ {fullKey},
                  IF c.ok THEN result \cup {stripPrefix(fullKey)} ELSE result)

getKeysByTag(e, tag) ==
  IF tag \notin DOMAIN e.tags THEN Ret(e, {}) ELSE tagLoop(e, e.tags[tag], {})

RECURSIVE tagAdd(_, _, _)
tagAdd(tg, fullKey, tagList) ==
  IF tagList = <<>> THEN tg
  ELSE LET t == Head(tagList)
           tg1 == IF t \notin DOMAIN tg THEN Put(tg, t, {}) ELSE tg
       IN tagAdd([tg1 EXCEPT ![t] = tg1[t] \cup {fullKey}], fullKey, Tail(tagList))

tag_(e, key, tagList) ==
  LET fullKey == getFullKey(key)
  IN IF fullKey \notin DOMAIN e.data
     THEN Ret(e, FALSE)
     ELSE Ret([e EXCEPT !.tags = tagAdd(e.tags, fullKey, tagList)], TRUE)

\* an array holding the elements of a set (the order of a Set's iteration
\* does not matter to del)
RECURSIVE SetToSeq(_)
SetToSeq(S) ==
  IF S = {} THEN <<>>
  ELSE LET x == CHOOSE y \in S : TRUE IN <<x>> \o SetToSeq(S \ {x})

\* deleteByTag with no other call between its turns: the live tagged keys,
\* `if (keys.length === 0) return 0`, del of them, `this.tags.delete(tag)`
deleteByTagRun(e, tag) ==
  LET g == getKeysByTag(e, tag)
  IN IF g.ret = {} THEN Ret(g.e, 0)
     ELSE LET d == del(g.e, SetToSeq(g.ret))
          IN Ret([d.e EXCEPT !.tags = IF tag \in DOMAIN d.e.tags
                                      THEN Drop(d.e.tags, tag) ELSE d.e.tags],
                 d.ret)

\* ------------------------------------------------------------ legacy Cache
\* The synchronous Cache class keeps `data` and `stats` only; its keys carry no
\* prefix.  Its methods return the same [e, ret, threw] records.
IsLegacy == cfg.driver = "legacy"

\* _checkTTL, fixed at construction
Cache_checkTTL == cfg.stdTTL # 0 \/ cfg.checkPeriod # 0

Cache_getValLength(value) ==
  IF value.type = "string" THEN value.n
  ELSE IF value.type = "array" THEN 40 * value.n
  ELSE IF value.type = "number" THEN 8
  ELSE IF value.type = "object" THEN 80 * value.n
  ELSE IF value.type = "boolean" THEN 8
  ELSE 0

\* `if (ttl === 0) .. else if (ttl) .. else stdTTL`
Cache_livetime(ttl) ==
  IF ttl = <<0>> THEN 0
  ELSE IF ttl # NoTtl THEN now + ttl[1] * 1000
  ELSE IF cfg.stdTTL = 0 THEN 0
  ELSE now + cfg.stdTTL * 1000

Cache_wrap(value, ttl, asClone) ==
  [t |-> Cache_livetime(ttl),
   v |-> IF asClone /\ cfg.useClones THEN clone(value) ELSE value]

\* a key that is neither a string nor a number (an object, a boolean, ..)
BadKey == "<object>"

\* _isInvalidKey: `!this.validKeyTypes.includes(typeof key)`
Cache_isInvalidKey(key) == key = BadKey

\* del: the loop over the key array, each key validated when its turn comes
RECURSIVE Cache_delLoop(_, _, _)
Cache_delLoop(e, keys, delCount) ==
  IF keys = <<>> THEN Ret(e, delCount)
  ELSE LET keyStr == Head(keys)
       IN IF Cache_isInvalidKey(keyStr) THEN Threw(e)
          ELSE IF keyStr \in DOMAIN e.data
               THEN Cache_delLoop(
                      [e EXCEPT !.stats.vsize = e.stats.vsize
                                                - Cache_getValLength(e.data[keyStr].v),
                                !.stats.ksize = e.stats.ksize - Len(keyStr),
                                !.stats.keys = e.stats.keys - 1,
                                !.data = Drop(e.data, keyStr)],
                      Tail(keys), delCount + 1)
               ELSE Cache_delLoop(e, Tail(keys), delCount)

Cache_del(e, keys) == Cache_delLoop(e, keys, 0)

\* _check: the result and the cache after the call
Cache_check(e, key, w) ==
  IF w.t # 0 /\ w.t < now /\ cfg.deleteOnExpire
  THEN [ok |-> FALSE, e |-> Cache_del(e, <<key>>).e]
  ELSE [ok |-> TRUE, e |-> e]

\* `this.data[keyStr] && this._check(keyStr, this.data[keyStr])`
Cache_liveCheck(e, keyStr) ==
  IF keyStr \in DOMAIN e.data
  THEN Cache_check(e, keyStr, e.data[keyStr])
  ELSE [ok |-> FALSE, e |-> e]

\* `this.dataMap ? this.dataMap.get(keyStr) : this.data[keyStr]`: the store
\* that get, set and has read and write
Cache_store(e) == IF cfg.maxPerformance THEN e.dataMap ELSE e.data

Cache_get(e, key) ==
  IF key \notin DOMAIN Cache_store(e)
  THEN Ret([e EXCEPT !.stats.misses = e.stats.misses + 1], Undefined)
  ELSE LET w == Cache_store(e)[key]
       IN IF Cache_checkTTL /\ w.t # 0 /\ w.t < now
          THEN LET e1 == [e EXCEPT !.stats.misses = e.stats.misses + 1,
                                   !.stats.vsize = e.stats.vsize - Cache_getValLength(w.v),
                                   !.stats.ksize = e.stats.ksize - Len(key),
                                   !.stats.keys = e.stats.keys - 1]
               IN Ret(IF cfg.deleteOnExpire
                      THEN (IF cfg.maxPerformance
                            THEN [e1 EXCEPT !.dataMap = Drop(e1.dataMap, key)]
                            ELSE [e1 EXCEPT !.data = Drop(e1.data, key)])
                      ELSE e1,
                      Undefined)
          ELSE Ret([e EXCEPT !.stats.hits = e.stats.hits + 1],
                   IF cfg.useClones THEN clone(w.v) ELSE w.v)

Cache_set(e, key, value, ttl) ==
  LET existent == key \in DOMAIN Cache_store(e)
  IN IF ~existent /\ cfg.maxKeys # 0 /\ cfg.maxKeys > -1 /\ e.stats.keys >= cfg.maxKeys
     THEN Threw(e)
     ELSE LET livetime == IF Cache_checkTTL THEN Cache_livetime(ttl) ELSE 0
              e1 == IF existent
                    THEN [e EXCEPT !.stats.vsize =
                            e.stats.vsize - Cache_getValLength(Cache_store(e)[key].v)]
                    ELSE e
              wrappedValue == [t |-> livetime,
                               v |-> IF cfg.useClones THEN clone(value) ELSE value]
              e2 == [e1 EXCEPT !.data = IF cfg.maxPerformance THEN e1.data
                                        ELSE Put(e1.data, key, wrappedValue),
                               !.dataMap = IF cfg.maxPerformance
                                           THEN Put(e1.dataMap, key, wrappedValue)
                                           ELSE e1.dataMap,
                               !.stats.vsize = e1.stats.vsize + Cache_getValLength(value)]
              e3 == IF ~existent
                    THEN [e2 EXCEPT !.stats.ksize = e2.stats.ksize + Len(key),
                                    !.stats.keys = e2.stats.keys + 1]
                    ELSE e2
          IN Ret(e3, TRUE)

\* mset: count the keys not stored, check the projected total, then write
\* every entry (an entry's `value` field stands for the code's `val`)
Cache_newKeysCount(e, keyValueSet) ==
  Cardinality({i \in 1..Len(keyValueSet) : keyValueSet[i].key \notin DOMAIN e.data})

RECURSIVE Cache_msetLoop(_, _)
Cache_msetLoop(e, keyValueSet) ==
  IF keyValueSet = <<>> THEN Ret(e, TRUE)
  ELSE LET key == Head(keyValueSet).key
           val == Head(keyValueSet).value
           existent == key \in DOMAIN e.data
           e1 == IF existent
                 THEN [e EXCEPT !.stats.vsize =
                         e.stats.vsize - Cache_getValLength(e.data[key].v)]
                 ELSE e
           e2 == [e1 EXCEPT !.data = Put(e1.data, key,
                                         [t |-> Cache_livetime(Head(keyValueSet).ttl),
                                          v |-> IF cfg.useClones THEN clone(val) ELSE val]),
                            !.stats.vsize = e1.stats.vsize + Cache_getValLength(val)]
           e3 == IF ~existent
                 THEN [e2 EXCEPT !.stats.ksize = e2.stats.ksize + Len(key),
                                 !.stats.keys = e2.stats.keys + 1]
                 ELSE e2
       IN Cache_msetLoop(e3, Tail(keyValueSet))

Cache_mset(e, keyValueSet) ==
  IF cfg.maxKeys # 0 /\ cfg.maxKeys > -1
     /\ e.stats.keys + Cache_newKeysCount(e, keyValueSet) > cfg.maxKeys
  THEN Threw(e)
  ELSE Cache_msetLoop(e, keyValueSet)

\* ttl(key, ttl?): `ttlValue && ttlValue >= 0` resets the expiry, anything
\* else deletes the key
Cache_ttl(e, key, ttl) ==
  LET ttlValue == IF ttl = NoTtl THEN cfg.stdTTL ELSE ttl[1]
      c == Cache_liveCheck(e, key)
  IN IF c.ok
     THEN IF ttlValue # 0 /\ ttlValue >= 0
          THEN Ret([c.e EXCEPT !.data[key] = Cache_wrap(c.e.data[key].v, <<ttlValue>>, FALSE)],
                   TRUE)
          ELSE Ret(Cache_del(c.e, <<key>>).e, TRUE)
     ELSE Ret(c.e, FALSE)

\* getTtl: ret is <<t>> or <<>> for undefined
Cache_getTtl(e, key) ==
  LET c == Cache_liveCheck(e, key)
  IN IF c.ok THEN Ret(c.e, <<c.e.data[key].t>>) ELSE Ret(c.e, <<>>)

\* keys(): Object.keys(this.data)
Cache_keys(e) == Ret(e, DOMAIN e.data)

Cache_has(e, key) ==
  IF key \in DOMAIN Cache_store(e)
  THEN Ret(e, ~Cache_checkTTL \/ Cache_store(e)[key].t = 0
              \/ Cache_store(e)[key].t >= now)
  ELSE Ret(e, FALSE)

\* getStats: `return this.stats`, the cache's own object
Cache_getStats(e) == ThisStats

\* `this.stats = { hits: 0, .. }` gives the cache a new object: an object handed
\* out before keeps the fields it had
Detached(e, h) == IF h.kind = "alias" THEN NewObject(e.stats) ELSE h

\* flushAll: the data and the stats (the action re-arms the timer)
Cache_flushAll(e) == [e EXCEPT !.data = <<>>, !.stats = ZeroStats]

\* _checkData: _check of every key
RECURSIVE Cache_checkLoop(_, _)
Cache_checkLoop(e, ks) ==
  IF ks = {} THEN e
  ELSE LET k == CHOOSE x \in ks : TRUE
       IN Cache_checkLoop(Cache_liveCheck(e, k).e, ks \ {k})

Cache_checkData(e) == Cache_checkLoop(e, DOMAIN e.data)

\* take: get, and del when a value came back, in one synchronous call
Cache_take(e, key) ==
  LET g == Cache_get(e, key)
  IN IF g.ret # Undefined THEN Ret(Cache_del(g.e, <<key>>).e, g.ret) ELSE g

\* ------------------------------------------------------------ construction
\* the options of a driver; `reads` and `leak` are not options of the code but
\* the bounds on counted reads and on unaccounted sizes of the runs made with
\* these options
Options(driver, maxKeys, stdTTL, deleteOnExpire, prefix, checkPeriod) ==
  [driver |-> driver, maxKeys |-> maxKeys, stdTTL |-> stdTTL,
   deleteOnExpire |-> deleteOnExpire, prefix |-> prefix,
   checkPeriod |-> checkPeriod, useClones |-> TRUE, maxPerformance |-> FALSE,
   reads |-> MaxReads, leak |-> MaxLeak]

NoPend == [op |-> "none", rest |-> <<>>, tag |-> Nil, keys |-> {}]

Idle == [pc |-> "idle", key |-> Nil, val |-> Undefined]

\* startCheckPeriod: the timer armed by a call at time `at`
startCheckPeriod(at) == IF cfg.checkPeriod > 0 THEN at + cfg.checkPeriod * 1000 ELSE -1

InitWith(C, O) ==
  /\ cfg \in C
  /\ obs = O
  /\ now = StartTime
  /\ data = <<>>
  /\ dataMap = <<>>
  /\ head = Nil
  /\ tail = Nil
  /\ prev = <<>>
  /\ next = <<>>
  /\ stats = ZeroStats
  /\ tags = <<>>
  /\ checkTimeout = startCheckPeriod(StartTime)
  /\ pend = NoPend
  /\ task = [p \in Tasks |-> Idle]
  /\ used = <<>>
  /\ run = <<>>
  /\ shadow = <<>>
  /\ taken = [k \in Keys |-> 0]
  /\ closed = FALSE
  /\ marked = {}
  /\ held = NoObject
  /\ heldWas = ZeroStats
  /\ allowed = [id \in Identifiers |-> 0]

\* ------------------------------------------------------------ history
Range(q) == {q[i] : i \in 1..Len(q)}

RECURSIVE Without(_, _)
Without(q, S) ==
  IF q = <<>> THEN <<>>
  ELSE IF Head(q) \in S THEN Without(Tail(q), S)
  ELSE <<Head(q)>> \o Without(Tail(q), S)

\* the keys of `touched`, one after the other, become the most recent
RECURSIVE Touch(_, _)
Touch(q, touched) ==
  IF touched = <<>> THEN q
  ELSE Touch(<<Head(touched)>> \o Without(q, {Head(touched)}), Tail(touched))

\* the expiry time the documentation gives a write made now with this ttl
SpecExpiry(ttl) ==
  IF ttl = <<0>> THEN 0
  ELSE IF ttl # NoTtl THEN now + ttl[1] * 1000
  ELSE IF cfg.stdTTL = 0 THEN 0
  ELSE now + cfg.stdTTL * 1000

Passed(t, at) == t # 0 /\ t < at

RECURSIVE Written(_, _)
Written(sh, writes) ==
  IF writes = <<>> THEN sh
  ELSE Written(Put(sh, Head(writes).key,
                   [v |-> Head(writes).v, t |-> Head(writes).t,
                    since |-> IF "since" \in obs THEN now ELSE 0]),
               Tail(writes))

StoredKeys(e) == {stripPrefix(fk) : fk \in DOMAIN e.data}

\* the history after a call: `touched` are the keys it read with a hit or
\* wrote, in order, `writes` the [key, v, t] it wrote, `gone` the keys it
\* deleted, flushed or evicted, `setKey` the key of a set (Nil: another call,
\* Keep: no call), `at` the time after the step, `took` the key whose value a
\* take returned (Nil otherwise), `add` the <<key, tag>> a tag() call added
HistoryM(e2, touched, writes, gone, setKey, at, took, add) ==
  /\ used' = IF "used" \in obs
             THEN Without(Touch(used, touched), Keys \ StoredKeys(e2))
             ELSE used
  /\ run' = IF "run" \in obs
            THEN (IF setKey = Keep THEN run
                  ELSE IF setKey = Nil THEN <<>>
                  ELSE IF setKey \in Range(run) THEN <<setKey>>
                  ELSE Append(run, setKey))
            ELSE run
  /\ shadow' = IF "shadow" \in obs
               THEN LET w == Written(shadow, writes)
                    IN [k \in {x \in DOMAIN w : x \notin gone /\ ~Passed(w[x].t, at)}
                          |-> w[k]]
               ELSE shadow
  /\ taken' = IF "taken" \in obs
              THEN [k \in Keys |-> IF \E i \in 1..Len(writes) : writes[i].key = k
                                   THEN 0
                                   ELSE IF k = took THEN taken[k] + 1
                                   ELSE taken[k]]
              ELSE taken
  /\ marked' = IF "marked" \in obs
               THEN {m \in marked \cup add :
                       /\ getFullKey(m[1]) \in DOMAIN e2.data
                       /\ m[1] \notin gone
                       /\ ~Passed(e2.data[getFullKey(m[1])].t, at)}
               ELSE marked
  /\ heldWas' = heldWas
  /\ allowed' = allowed

History(e2, touched, writes, gone, setKey, at, took) ==
  HistoryM(e2, touched, writes, gone, setKey, at, took, {})

NoHistory == History(Eng, <<>>, <<>>, {}, Nil, now, Nil)

\* ------------------------------------------------------------ inputs of calls
KeyLists == {<<"a">>, <<"b">>, <<"a", "b">>, <<"b", "a", "c">>}

TagLists == {<<t>> : t \in Tags}

Entry(k, v) == [key |-> k, value |-> v, ttl |-> NoTtl]

Batches == {<<Entry("a", StrVal), Entry("b", NumVal)>>, <<Entry("b", StrVal)>>}

\* ------------------------------------------------------------ actions
Quiet == UNCHANGED <<cfg, obs, now, checkTimeout, closed, held, pend, task>>

Tick ==
  /\ now < StartTime + MaxTicks * 1000
  /\ now' = now + 1000
  /\ History(Eng, <<>>, <<>>, {}, Keep, now + 1000, Nil)
  /\ UNCHANGED <<cfg, obs, evars, checkTimeout, closed, held, pend, task>>

\* time passing once the exploration's clock has run out, for the length of
\* MaxWait more periods and never past the time the pending timer is due
TimerWait ==
  /\ now >= StartTime + MaxTicks * 1000
  /\ now < StartTime + (MaxTicks + MaxWait) * 1000
  /\ checkTimeout >= 0
  /\ now < checkTimeout
  /\ now' = now + 1000
  /\ History(Eng, <<>>, <<>>, {}, Keep, now + 1000, Nil)
  /\ UNCHANGED <<cfg, obs, evars, checkTimeout, closed, held, pend, task>>

Get(k) ==
  \E r \in {get(Eng, k)} :
     /\ Install(r.e)
     /\ History(r.e, IF r.ret # Undefined THEN <<k>> ELSE <<>>, <<>>, {}, Nil, now, Nil)
     /\ Quiet

MGet(ks) ==
  \E r \in {mget(Eng, ks)} :
     /\ Install(r.e)
     /\ History(r.e, SelectSeq(ks, LAMBDA k : \E p \in r.ret : p[1] = k), <<>>, {}, Nil, now, Nil)
     /\ Quiet

\* what a set that did not throw adds to the history
SetHistory(r, k, v, t) ==
  IF r.threw THEN NoHistory
  ELSE History(r.e, <<k>>, <<[key |-> k, v |-> v, t |-> SpecExpiry(t)]>>,
               (StoredKeys(Eng) \ StoredKeys(r.e)) \ {k}, k, now, Nil)

Set(k, v, t) ==
  \E r \in {set(Eng, k, v, t)} :
     /\ Install(r.e)
     /\ SetHistory(r, k, v, t)
     /\ Quiet

Del(ks) ==
  \E r \in {del(Eng, ks)} :
     /\ Install(r.e)
     /\ History(r.e, <<>>, <<>>, Range(ks), Nil, now, Nil)
     /\ Quiet

Has(k) ==
  /\ Install(has(Eng, k).e)
  /\ NoHistory
  /\ Quiet

KeysCall ==
  /\ Install(keys_(Eng).e)
  /\ NoHistory
  /\ Quiet

GetTtl(k) ==
  /\ Install(getTtl(Eng, k).e)
  /\ NoHistory
  /\ Quiet

Ttl(k, secs) ==
  \E r \in {ttl_(Eng, k, secs)} :
     /\ Install(r.e)
     /\ History(r.e, <<>>,
                IF r.ret /\ k \in DOMAIN shadow
                THEN <<[key |-> k, v |-> shadow[k].v, t |-> SpecExpiry(<<secs>>)]>>
                ELSE <<>>,
                {}, Nil, now, Nil)
     /\ Quiet

Flush ==
  /\ Install(flush(Eng))
  /\ History(flush(Eng), <<>>, <<>>, Keys, Nil, now, Nil)
  /\ Quiet

GetKeysByTag(t) ==
  /\ Install(getKeysByTag(Eng, t).e)
  /\ NoHistory
  /\ Quiet

TagKey(k, tl) ==
  \E r \in {tag_(Eng, k, tl)} :
     /\ Install(r.e)
     /\ HistoryM(r.e, <<>>, <<>>, {}, Nil, now, Nil,
                 IF r.ret THEN {<<k, tl[i]>> : i \in 1..Len(tl)} ELSE {})
     /\ Quiet

\* mset: the capacity check and the first set run in the caller's turn; every
\* `await this.set(..)` suspends the loop until a later turn
MSetCall(entries) ==
  /\ pend.op = "none"
  /\ IF msetThrows(Eng, entries)
     THEN UNCHANGED <<evars, pend>> /\ NoHistory
     ELSE \E r \in {set(Eng, entries[1].key, entries[1].value, entries[1].ttl)} :
             /\ Install(r.e)
             /\ SetHistory(r, entries[1].key, entries[1].value, entries[1].ttl)
             /\ pend' = IF r.threw \/ Len(entries) = 1 THEN NoPend
                        ELSE [NoPend EXCEPT !.op = "mset", !.rest = Tail(entries)]
  /\ UNCHANGED <<cfg, obs, now, checkTimeout, closed, held, task>>

MSetResume ==
  /\ pend.op = "mset"
  /\ \E r \in {set(Eng, pend.rest[1].key, pend.rest[1].value, pend.rest[1].ttl)} :
        /\ Install(r.e)
        /\ SetHistory(r, pend.rest[1].key, pend.rest[1].value, pend.rest[1].ttl)
        /\ pend' = IF r.threw \/ Len(pend.rest) = 1 THEN NoPend
                   ELSE [pend EXCEPT !.rest = Tail(pend.rest)]
  /\ UNCHANGED <<cfg, obs, now, checkTimeout, closed, held, task>>

\* deleteByTag: `await this.getKeysByTag(tag)`, `await this.del(keys)`, then
\* `this.tags.delete(tag)`, each in a turn of its own
DeleteByTagCall(t) ==
  /\ pend.op = "none"
  /\ \E r \in {getKeysByTag(Eng, t)} :
        /\ Install(r.e)
        /\ pend' = IF r.ret = {} THEN NoPend
                   ELSE [NoPend EXCEPT !.op = "dbtKeys", !.tag = t, !.keys = r.ret]
  /\ NoHistory
  /\ UNCHANGED <<cfg, obs, now, checkTimeout, closed, held, task>>

DeleteByTagDel ==
  /\ pend.op = "dbtKeys"
  /\ \E r \in {del(Eng, SetToSeq(pend.keys))} :
        /\ Install(r.e)
        /\ History(r.e, <<>>, <<>>, pend.keys, Nil, now, Nil)
  /\ pend' = [NoPend EXCEPT !.op = "dbtDone", !.tag = pend.tag]
  /\ UNCHANGED <<cfg, obs, now, checkTimeout, closed, held, task>>

DeleteByTagEnd ==
  /\ pend.op = "dbtDone"
  /\ tags' = IF pend.tag \in DOMAIN tags THEN Drop(tags, pend.tag) ELSE tags
  /\ pend' = NoPend
  /\ marked' = {m \in marked : m[2] # pend.tag}
  /\ UNCHANGED <<cfg, obs, now, data, dataMap, head, tail, prev, next, stats, checkTimeout, closed, held,
                 task, used, run, shadow, taken, held, heldWas, allowed>>

\* the sweep timer's callback: checkAllData(), then startCheckPeriod()
Sweep ==
  /\ checkTimeout >= 0
  /\ now >= checkTimeout
  /\ Install(checkAllData(Eng))
  /\ History(checkAllData(Eng), <<>>, <<>>, {}, Nil, now, Nil)
  /\ checkTimeout' = startCheckPeriod(now)
  /\ UNCHANGED <<cfg, obs, now, pend, task, closed, held>>

\* close(): stopCheckPeriod() clears the pending timer
Close ==
  /\ checkTimeout >= 0
  /\ checkTimeout' = -1
  /\ closed' = TRUE
  /\ UNCHANGED <<cfg, obs, now, evars, pend, task, held, hvars>>

\* getStats(): the caller keeps the object it gets
GetStatsCall ==
  /\ held' = NewObject(getStats(Eng))
  /\ heldWas' = stats
  /\ UNCHANGED <<cfg, obs, now, evars, checkTimeout, closed, pend, task,
                 used, run, shadow, taken, marked, allowed>>

\* the caller assigns to a field of the object it got from getStats()
StatFields == {"hits", "keys"}

HeldWrite(f, n) ==
  /\ held.kind # "none"
  /\ \E w \in {writeHeld(Eng, held, f, n)} :
        /\ Install(w.e)
        /\ held' = w.h
  /\ heldWas' = [heldWas EXCEPT ![f] = n]
  /\ UNCHANGED <<cfg, obs, now, checkTimeout, closed, pend, task,
                 used, run, shadow, taken, marked, allowed>>

\* ------------------------------------------------------------ CacheManager
\* take: `await this.driver.get(key)`; when a value came back, in a later
\* turn, `await this.driver.del(key)`; then the value is returned
TakeCall(p, k) ==
  /\ task[p].pc = "idle"
  /\ \E r \in {get(Eng, k)} :
        /\ Install(r.e)
        /\ History(r.e, IF r.ret # Undefined THEN <<k>> ELSE <<>>, <<>>, {}, Nil, now, Nil)
        /\ task' = [task EXCEPT ![p] = IF r.ret = Undefined THEN Idle
                                        ELSE [pc |-> "take", key |-> k, val |-> r.ret]]
  /\ UNCHANGED <<cfg, obs, now, checkTimeout, closed, held, pend>>

TakeResume(p) ==
  /\ task[p].pc = "take"
  /\ \E r \in {del(Eng, <<task[p].key>>)} :
        /\ Install(r.e)
        /\ History(r.e, <<>>, <<>>, {task[p].key}, Nil, now, task[p].key)
  /\ task' = [task EXCEPT ![p] = Idle]
  /\ UNCHANGED <<cfg, obs, now, checkTimeout, closed, held, pend>>

\* rememberForever(key, fetcher) is fetch(key, fetcher, 0): `await this.get(key)`
\* returns the cached value on a hit; on a miss, in later turns, the fetcher
\* gives a value and `await this.set(key, value, 0)` writes it
RememberForeverCall(p, k) ==
  /\ task[p].pc = "idle"
  /\ \E r \in {get(Eng, k)} :
        /\ Install(r.e)
        /\ History(r.e, IF r.ret # Undefined THEN <<k>> ELSE <<>>, <<>>, {}, Nil, now, Nil)
        /\ task' = [task EXCEPT ![p] = IF r.ret # Undefined THEN Idle
                                        ELSE [pc |-> "fetch", key |-> k, val |-> Undefined]]
  /\ UNCHANGED <<cfg, obs, now, checkTimeout, closed, held, pend>>

RememberForeverResume(p, v) ==
  /\ task[p].pc = "fetch"
  /\ \E r \in {set(Eng, task[p].key, v, <<0>>)} :
        /\ Install(r.e)
        /\ SetHistory(r, task[p].key, v, <<0>>)
  /\ task' = [task EXCEPT ![p] = Idle]
  /\ UNCHANGED <<cfg, obs, now, checkTimeout, closed, held, pend>>

\* ------------------------------------------------------------ CacheLock
\* the resources callers lock, and `lock:${resource}`
Resources == {"r1", "r2"}

LockKey(resource) == "lock:" \o resource

\* lockTimeout, in seconds (the default)
LockTimeout == 30

\* acquire: `await this.cache.has(key)` reads in the caller's turn; when the
\* key is there acquire returns false, otherwise the set follows in a later turn
LockAcquireCall(p, resource) ==
  /\ task[p].pc = "idle"
  /\ \E r \in {has(Eng, LockKey(resource))} :
        /\ Install(r.e)
        /\ task' = [task EXCEPT ![p] = IF r.ret THEN Idle
                                        ELSE [pc |-> "acquire", key |-> resource,
                                              val |-> Undefined]]
  /\ NoHistory
  /\ UNCHANGED <<cfg, obs, now, checkTimeout, closed, held, pend>>

\* `await this.cache.set(key, Date.now(), ttl ?? this.lockTimeout)`, after which
\* acquire returns true: the caller holds the lock (withLock runs its callback)
LockAcquireSet(p) ==
  /\ task[p].pc = "acquire"
  /\ \E r \in {set(Eng, LockKey(task[p].key), NumVal, <<LockTimeout>>)} :
        /\ Install(r.e)
        /\ task' = [task EXCEPT ![p] = IF r.threw THEN Idle
                                        ELSE [task[p] EXCEPT !.pc = "held"]]
  /\ NoHistory
  /\ UNCHANGED <<cfg, obs, now, checkTimeout, closed, held, pend>>

\* release by the holder (the `finally` of withLock): del of the key
LockRelease(p) ==
  /\ task[p].pc = "held"
  /\ Install(del(Eng, <<LockKey(task[p].key)>>).e)
  /\ task' = [task EXCEPT ![p] = Idle]
  /\ NoHistory
  /\ UNCHANGED <<cfg, obs, now, checkTimeout, closed, held, pend>>

\* ------------------------------------------------------------ RateLimiter
\* new RateLimiter(cache, MaxAttempts, WindowSeconds)
MaxAttempts == 2

WindowSeconds == 60

RateKey(identifier) == "ratelimit:" \o identifier

Number(n) == [type |-> "number", n |-> n]

\* the history variables a RateLimiter step leaves alone
RateQuiet == UNCHANGED <<cfg, obs, now, checkTimeout, closed, held, pend,
                         used, run, shadow, taken, marked, heldWas>>

\* check: `await this.cache.get(key) ?? 0` reads in the caller's turn; the
\* rest of the call runs in a later turn
RateCheckCall(p, identifier) ==
  /\ task[p].pc = "idle"
  /\ \E r \in {get(Eng, RateKey(identifier))} :
        /\ Install(r.e)
        /\ LET current == IF r.ret \in {Undefined, NullVal} THEN 0 ELSE r.ret.n
           IN task' = [task EXCEPT ![p] =
                         [pc |-> IF current >= MaxAttempts THEN "limited" ELSE "count",
                          key |-> identifier, val |-> Number(current)]]
  /\ allowed' = allowed
  /\ RateQuiet

\* `current >= this.maxAttempts`: `await this.cache.getTtl(key)`, then
\* { limited: true, remaining: 0 } is returned
RateCheckLimited(p) ==
  /\ task[p].pc = "limited"
  /\ Install(getTtl(Eng, RateKey(task[p].key)).e)
  /\ task' = [task EXCEPT ![p] = Idle]
  /\ allowed' = allowed
  /\ RateQuiet

\* otherwise `await this.cache.set(key, current + 1, this.windowSeconds)`, then
\* { limited: false, remaining: maxAttempts - current - 1 } is returned
RateCheckCount(p) ==
  /\ task[p].pc = "count"
  /\ \E r \in {set(Eng, RateKey(task[p].key), Number(task[p].val.n + 1),
                    <<WindowSeconds>>)} :
        /\ Install(r.e)
        /\ allowed' = IF r.threw THEN allowed
                      ELSE [allowed EXCEPT ![task[p].key] = allowed[task[p].key] + 1]
  /\ task' = [task EXCEPT ![p] = Idle]
  /\ RateQuiet

\* reset: del of the counter key
RateReset(identifier) ==
  /\ Install(del(Eng, <<RateKey(identifier)>>).e)
  /\ allowed' = [allowed EXCEPT ![identifier] = 0]
  /\ UNCHANGED task
  /\ RateQuiet

\* ------------------------------------------------------------ legacy Cache calls
\* every method of the legacy Cache is synchronous: one call, one step
CacheHistory(e2, writes, took) ==
  History(e2, <<>>, writes, StoredKeys(Eng) \ StoredKeys(e2), Nil, now, took)

CacheGet(k) ==
  \E r \in {Cache_get(Eng, k)} :
     /\ Install(r.e)
     /\ CacheHistory(r.e, <<>>, Nil)
     /\ Quiet

CacheSet(k, v, t) ==
  \E r \in {Cache_set(Eng, k, v, t)} :
     /\ Install(r.e)
     /\ SetHistory(r, k, v, t)
     /\ Quiet

CacheMSet(keyValueSet) ==
  \E r \in {Cache_mset(Eng, keyValueSet)} :
     /\ Install(r.e)
     /\ IF r.threw THEN NoHistory
        ELSE CacheHistory(r.e, [i \in 1..Len(keyValueSet) |->
                                  [key |-> keyValueSet[i].key, v |-> keyValueSet[i].value,
                                   t |-> SpecExpiry(keyValueSet[i].ttl)]], Nil)
     /\ Quiet

CacheDel(ks) ==
  \E r \in {Cache_del(Eng, ks)} :
     /\ Install(r.e)
     /\ CacheHistory(r.e, <<>>, Nil)
     /\ Quiet

CacheTtl(k, t) ==
  \E r \in {Cache_ttl(Eng, k, t)} :
     /\ Install(r.e)
     /\ CacheHistory(r.e, IF r.ret /\ k \in DOMAIN shadow /\ k \in DOMAIN r.e.data
                          THEN <<[key |-> k, v |-> shadow[k].v, t |-> SpecExpiry(t)]>>
                          ELSE <<>>, Nil)
     /\ Quiet

CacheGetTtl(k) ==
  /\ Install(Cache_getTtl(Eng, k).e)
  /\ CacheHistory(Cache_getTtl(Eng, k).e, <<>>, Nil)
  /\ Quiet

CacheTake(k) ==
  \E r \in {Cache_take(Eng, k)} :
     /\ Install(r.e)
     /\ CacheHistory(r.e, <<>>, IF r.ret # Undefined THEN k ELSE Nil)
     /\ Quiet

\* flushAll: `_killCheckPeriod()` and `_checkData()` start the timer again
CacheFlushAll ==
  /\ Install(Cache_flushAll(Eng))
  /\ CacheHistory(Cache_flushAll(Eng), <<>>, Nil)
  /\ checkTimeout' = startCheckPeriod(now)
  /\ held' = Detached(Eng, held)
  /\ UNCHANGED <<cfg, obs, now, pend, task, closed>>

\* the timer's callback: _checkData(), which sets the next timer
CacheSweep ==
  /\ checkTimeout >= 0
  /\ now >= checkTimeout
  /\ Install(Cache_checkData(Eng))
  /\ CacheHistory(Cache_checkData(Eng), <<>>, Nil)
  /\ checkTimeout' = startCheckPeriod(now)
  /\ UNCHANGED <<cfg, obs, now, pend, task, closed, held>>

\* getStats(): the caller keeps the object it gets
CacheGetStats ==
  /\ held' = Cache_getStats(Eng)
  /\ heldWas' = stats
  /\ UNCHANGED <<cfg, obs, now, evars, checkTimeout, closed, pend, task,
                 used, run, shadow, taken, marked, allowed>>

\* close(): _killCheckPeriod() clears the pending timer
CacheClose ==
  /\ checkTimeout >= 0
  /\ checkTimeout' = -1
  /\ closed' = TRUE
  /\ UNCHANGED <<cfg, obs, now, evars, pend, task, held, hvars>>

\* ------------------------------------------------------------ namespace
\* CacheManager.namespace(prefix): a manager over a wrapper that rewrites each
\* key to `${prefix}:${key}` and hands it to the driver of the parent manager.
\* the prefixes given to namespace() and the keys used through a namespace
NsPrefixes == {"n", "n:m"}

NsKeyNames == {"a", "m:a"}

\* patternToRegex(pattern).test(key): `*` is any run of characters, `?` any one
\* character, every other character itself, anchored at both ends
RECURSIVE patternToRegex(_, _)
patternToRegex(pattern, key) ==
  IF pattern = "" THEN key = ""
  ELSE LET c == SubSeq(pattern, 1, 1)
           rest == SubSeq(pattern, 2, Len(pattern))
       IN IF c = "*"
          THEN \E i \in 0..Len(key) : patternToRegex(rest, SubSeq(key, i + 1, Len(key)))
          ELSE /\ key # ""
               /\ c = "?" \/ c = SubSeq(key, 1, 1)
               /\ patternToRegex(rest, SubSeq(key, 2, Len(key)))

\* keys(pattern): the live keys, prefix stripped, that the pattern matches
keysMatching(e, pattern) ==
  LET r == keys_(e) IN Ret(r.e, {k \in r.ret : patternToRegex(pattern, k)})

\* String.prototype.replace(pat, ''): the first occurrence of pat removed
replaceFirst(str, pat) ==
  LET at == {i \in 1..(Len(str) - Len(pat) + 1) : SubSeq(str, i, i + Len(pat) - 1) = pat}
  IN IF at = {} THEN str
     ELSE LET i == CHOOSE x \in at : \A y \in at : x <= y
          IN SubSeq(str, 1, i - 1) \o SubSeq(str, i + Len(pat), Len(str))

nsKey(prefix, key) == prefix \o ":" \o key

Ns_get(e, prefix, key) == get(e, nsKey(prefix, key))

Ns_set(e, prefix, key, value, ttl) == set(e, nsKey(prefix, key), value, ttl)

Ns_del(e, prefix, keys) == del(e, [i \in 1..Len(keys) |-> nsKey(prefix, keys[i])])

Ns_has(e, prefix, key) == has(e, nsKey(prefix, key))

Ns_keys(e, prefix) ==
  LET r == keysMatching(e, prefix \o ":*")
  IN Ret(r.e, {replaceFirst(k, prefix \o ":") : k \in r.ret})

\* flush with no other call between its turns: `await driver.keys(..)`, then
\* `await driver.del(keys)` when there are any
Ns_flushRun(e, prefix) ==
  LET r == keysMatching(e, prefix \o ":*")
  IN IF r.ret = {} THEN r.e ELSE del(r.e, SetToSeq(r.ret)).e

NsGet(prefix, k) ==
  /\ Install(Ns_get(Eng, prefix, k).e)
  /\ NoHistory
  /\ Quiet

NsSet(prefix, k, v, t) ==
  /\ Install(Ns_set(Eng, prefix, k, v, t).e)
  /\ NoHistory
  /\ Quiet

NsDel(prefix, ks) ==
  /\ Install(Ns_del(Eng, prefix, ks).e)
  /\ NoHistory
  /\ Quiet

NsHas(prefix, k) ==
  /\ Install(Ns_has(Eng, prefix, k).e)
  /\ NoHistory
  /\ Quiet

NsKeys(prefix) ==
  /\ Install(Ns_keys(Eng, prefix).e)
  /\ NoHistory
  /\ Quiet

NsFlushCall(prefix) ==
  /\ pend.op = "none"
  /\ \E r \in {keysMatching(Eng, prefix \o ":*")} :
        /\ Install(r.e)
        /\ pend' = IF r.ret = {} THEN NoPend
                   ELSE [NoPend EXCEPT !.op = "nsFlush", !.keys = r.ret]
  /\ NoHistory
  /\ UNCHANGED <<cfg, obs, now, checkTimeout, closed, held, task>>

NsFlushDel ==
  /\ pend.op = "nsFlush"
  /\ Install(del(Eng, SetToSeq(pend.keys)).e)
  /\ pend' = NoPend
  /\ NoHistory
  /\ UNCHANGED <<cfg, obs, now, checkTimeout, closed, held, task>>

\* ------------------------------------------------------------ specifications
\* every driver call, over two keys and one tag
Configs ==
  { Options("memory", -1, 0, TRUE, "", 0),
    Options("memory", 1, 1, TRUE, "p", 1),
    Options("lru", 1, 0, TRUE, "p", 0),
    Options("lru", 1, 1, FALSE, "", 1) }

Init == InitWith(Configs, {"shadow"})

Next ==
  \/ Tick
  \/ \E k \in Keys2 : Get(k)
  \/ \E ks \in KeyLists : MGet(ks)
  \/ \E k \in Keys2, v \in Values, t \in Ttls : Set(k, v, t)
  \/ \E b \in Batches : MSetCall(b)
  \/ MSetResume
  \/ \E ks \in KeyLists : Del(ks)
  \/ \E k \in Keys2 : Has(k)
  \/ KeysCall
  \/ \E k \in Keys2 : GetTtl(k)
  \/ \E k \in Keys2, secs \in {0, 1} : Ttl(k, secs)
  \/ Flush
  \/ \E t \in Tags : GetKeysByTag(t)
  \/ \E k \in Keys2, tl \in TagLists : TagKey(k, tl)
  \/ \E t \in Tags : DeleteByTagCall(t)
  \/ DeleteByTagDel
  \/ DeleteByTagEnd
  \/ Sweep
  \/ Close

Spec == Init /\ [][Next]_vars

\* MemoryLRUDriver under get and set, capacity 2 over three keys
ConfigsLRU == { Options("lru", 2, 0, TRUE, "", 0), Options("lru", 2, 1, TRUE, "p", 0) }

InitLRU == InitWith(ConfigsLRU, {"used", "run"})

NextLRU ==
  \/ Tick
  \/ \E k \in Keys : Get(k)
  \/ \E k \in Keys, v \in Values, t \in {NoTtl, <<1>>} : Set(k, v, t)

SpecLRU == InitLRU /\ [][NextLRU]_vars

\* a CacheManager over either driver with a default ttl, one caller, and the
\* time each entry was written
ConfigsForever ==
  { Options("memory", -1, 1, TRUE, "", 1), Options("lru", 1, 1, TRUE, "p", 1) }

InitForever == InitWith(ConfigsForever, {"shadow", "since"})

NextForever ==
  \/ Tick
  \/ Sweep
  \/ \E k \in Keys2 : Get(k)
  \/ \E k \in Keys2 : Has(k)
  \/ \E k \in Keys2, v \in Values, t \in Ttls : Set(k, v, t)
  \/ \E k \in Keys2 : Ttl(k, 0)
  \/ \E k \in Keys2 : Del(<<k>>)
  \/ Flush
  \/ \E k \in Keys2 : RememberForeverCall(1, k)
  \/ \E v \in Values : RememberForeverResume(1, v)

SpecForever == InitForever /\ [][NextForever]_vars

\* a CacheManager over the default driver, with two concurrent callers
ConfigsTake == { [Options("memory", -1, 0, TRUE, "", 0) EXCEPT !.reads = MaxTakeReads] }

InitTake == InitWith(ConfigsTake, {"taken"})

NextTake ==
  \/ \E k \in Keys2 : Get(k)
  \/ \E k \in Keys2, v \in Values : Set(k, v, NoTtl)
  \/ \E k \in Keys2 : Del(<<k>>)
  \/ \E p \in Tasks, k \in Keys2 : TakeCall(p, k)
  \/ \E p \in Tasks : TakeResume(p)

SpecTake == InitTake /\ [][NextTake]_vars

\* the legacy Cache
ConfigsCache ==
  { Options("legacy", -1, 0, TRUE, "", 0),
    Options("legacy", 2, 1, TRUE, "", 1),
    Options("legacy", 1, 1, FALSE, "", 1) }

CacheBatches == Batches \cup {<<Entry("a", StrVal), Entry("a", NumVal)>>}

CacheTtls == Ttls \cup {<<-1>>}

\* key arrays given to del, two of them with a key of an invalid type
CacheDelLists == KeyLists \cup {<<"a", BadKey>>, <<BadKey, "b">>}

InitCache == InitWith(ConfigsCache, {"shadow"})

NextCache ==
  \/ Tick
  \/ \E k \in Keys2 : CacheGet(k)
  \/ \E k \in Keys2, v \in Values, t \in CacheTtls : CacheSet(k, v, t)
  \/ \E b \in CacheBatches : CacheMSet(b)
  \/ \E ks \in CacheDelLists : CacheDel(ks)
  \/ \E k \in Keys2, t \in CacheTtls : CacheTtl(k, t)
  \/ \E k \in Keys2 : CacheGetTtl(k)
  \/ \E k \in Keys2 : CacheTake(k)
  \/ CacheFlushAll
  \/ CacheSweep
  \/ CacheClose

SpecCache == InitCache /\ [][NextCache]_vars

\* MemoryDriver and the legacy Cache with a key limit
ConfigsCapacity ==
  { Options("memory", 0, 0, TRUE, "", 0),
    Options("memory", 2, 1, TRUE, "p", 1),
    Options("memory", 3, 0, FALSE, "", 0),
    Options("legacy", 2, 1, TRUE, "", 0) }

InitCapacity == InitWith(ConfigsCapacity, {})

NextCapacity ==
  \/ Tick
  \/ ~IsLegacy /\ \E k \in Keys, v \in Values : Set(k, v, NoTtl)
  \/ ~IsLegacy /\ \E b \in CacheBatches : MSetCall(b)
  \/ ~IsLegacy /\ MSetResume
  \/ ~IsLegacy /\ \E k \in Keys : Get(k)
  \/ ~IsLegacy /\ \E ks \in KeyLists : Del(ks)
  \/ ~IsLegacy /\ \E k \in Keys, tl \in TagLists : TagKey(k, tl)
  \/ ~IsLegacy /\ Sweep
  \/ IsLegacy /\ \E k \in Keys, v \in Values : CacheSet(k, v, NoTtl)
  \/ IsLegacy /\ \E b \in CacheBatches : CacheMSet(b)
  \/ IsLegacy /\ \E k \in Keys : CacheGet(k)
  \/ IsLegacy /\ \E ks \in KeyLists : CacheDel(ks)

SpecCapacity == InitCapacity /\ [][NextCapacity]_vars

\* the tag index of either driver under eviction, expiry and deletion, with
\* the record of the tag() calls made on each key while it has been live
ConfigsTags ==
  { Options("lru", 1, 0, TRUE, "p", 0),
    Options("memory", -1, 1, TRUE, "", 1),
    Options("memory", -1, 0, TRUE, "", 0) }

InitTags == InitWith(ConfigsTags, {"marked"})

NextTags ==
  \/ Tick
  \/ Sweep
  \/ \E k \in Keys2 : Set(k, StrVal, NoTtl)
  \/ \E k \in Keys2 : Del(<<k>>)
  \/ \E k \in Keys2 : Has(k)
  \/ \E k \in Keys2, tl \in TagLists : TagKey(k, tl)
  \/ \E t \in Tags : GetKeysByTag(t)
  \/ \E t \in Tags : DeleteByTagCall(t)
  \/ DeleteByTagDel
  \/ DeleteByTagEnd
  \/ Flush

SpecTags == InitTags /\ [][NextTags]_vars

\* either driver and the legacy Cache with a caller that keeps, and writes to,
\* the object getStats() gave it
ConfigsStats ==
  { Options("memory", -1, 0, TRUE, "", 0),
    Options("lru", 1, 0, TRUE, "p", 0),
    Options("legacy", -1, 0, TRUE, "", 0) }

InitStats == InitWith(ConfigsStats, {})

NextStats ==
  \/ ~IsLegacy /\ \E k \in Keys2, v \in Values : Set(k, v, NoTtl)
  \/ ~IsLegacy /\ \E k \in Keys2 : Get(k)
  \/ ~IsLegacy /\ \E k \in Keys2 : Del(<<k>>)
  \/ ~IsLegacy /\ Flush
  \/ ~IsLegacy /\ GetStatsCall
  \/ IsLegacy /\ \E k \in Keys2, v \in Values : CacheSet(k, v, NoTtl)
  \/ IsLegacy /\ \E k \in Keys2 : CacheGet(k)
  \/ IsLegacy /\ \E k \in Keys2 : CacheDel(<<k>>)
  \/ IsLegacy /\ CacheFlushAll
  \/ IsLegacy /\ CacheGetStats
  \/ \E f \in StatFields, n \in {0, 1} : HeldWrite(f, n)

SpecStats == InitStats /\ [][NextStats]_vars

\* the legacy Cache as a single-use store, with and without maxPerformance
ConfigsSingleUse ==
  { [Options("legacy", -1, 0, TRUE, "", 0) EXCEPT !.reads = MaxTakeReads],
    [Options("legacy", -1, 0, TRUE, "", 0) EXCEPT !.reads = MaxTakeReads,
                                                  !.maxPerformance = TRUE],
    [Options("legacy", -1, 1, FALSE, "", 1) EXCEPT !.reads = MaxTakeReads] }

InitSingleUse == InitWith(ConfigsSingleUse, {})

NextSingleUse ==
  \/ Tick
  \/ \E k \in Keys2, v \in Values : CacheSet(k, v, NoTtl)
  \/ \E b \in Batches : CacheMSet(b)
  \/ \E k \in Keys2 : CacheGet(k)
  \/ \E k \in Keys2 : CacheTake(k)
  \/ \E k \in Keys2 : CacheDel(<<k>>)
  \/ CacheFlushAll
  \/ CacheSweep

SpecSingleUse == InitSingleUse /\ [][NextSingleUse]_vars

\* a CacheLock over the default driver, with two concurrent callers
ConfigsLock == { Options("memory", -1, 0, TRUE, "", 0), Options("lru", 2, 0, TRUE, "p", 0) }

InitLock == InitWith(ConfigsLock, {})

NextLock ==
  \/ Tick
  \/ \E p \in Tasks, r \in Resources : LockAcquireCall(p, r)
  \/ \E p \in Tasks : LockAcquireSet(p)
  \/ \E p \in Tasks : LockRelease(p)

SpecLock == InitLock /\ [][NextLock]_vars

\* a RateLimiter over the default driver, with two concurrent callers
ConfigsRate == { [Options("memory", -1, 0, TRUE, "", 0) EXCEPT !.reads = MaxChecks] }

InitRate == InitWith(ConfigsRate, {})

NextRate ==
  \/ \E p \in Tasks, id \in Identifiers : RateCheckCall(p, id)
  \/ \E p \in Tasks : RateCheckLimited(p)
  \/ \E p \in Tasks : RateCheckCount(p)
  \/ \E id \in Identifiers : RateReset(id)

SpecRate == InitRate /\ [][NextRate]_vars

\* a CacheManager, its driver with and without a prefix of its own, used
\* directly and through two namespaces
ConfigsNs == { Options("memory", -1, 0, TRUE, "", 0), Options("memory", -1, 1, TRUE, "p", 0) }

InitNs == InitWith(ConfigsNs, {})

NextNs ==
  \/ Tick
  \/ \E k \in NsKeyNames : Get(k)
  \/ \E k \in NsKeyNames : Set(k, StrVal, NoTtl)
  \/ \E k \in NsKeyNames : Del(<<k>>)
  \/ \E p \in NsPrefixes, k \in NsKeyNames : NsGet(p, k)
  \/ \E p \in NsPrefixes, k \in NsKeyNames : NsSet(p, k, NumVal, NoTtl)
  \/ \E p \in NsPrefixes, k \in NsKeyNames : NsDel(p, <<k>>)
  \/ \E p \in NsPrefixes, k \in NsKeyNames : NsHas(p, k)
  \/ \E p \in NsPrefixes : NsKeys(p)
  \/ \E p \in NsPrefixes : NsFlushCall(p)
  \/ NsFlushDel

SpecNs == InitNs /\ [][NextNs]_vars

\* MemoryLRUDriver with room for three nodes in its list, under every call that
\* links or unlinks a node
ConfigsList ==
  { [Options("lru", 3, 1, TRUE, "", 1) EXCEPT !.reads = MaxTakeReads],
    [Options("lru", 2, 0, TRUE, "p", 0) EXCEPT !.reads = MaxTakeReads] }

InitList == InitWith(ConfigsList, {})

NextList ==
  \/ Tick
  \/ Sweep
  \/ \E k \in Keys : Get(k)
  \/ \E ks \in {<<"c", "a">>} : MGet(ks)
  \/ \E k \in Keys : Set(k, StrVal, NoTtl)
  \/ \E ks \in KeyLists : Del(ks)
  \/ \E k \in Keys : Has(k)
  \/ \E k \in Keys : Ttl(k, 0)
  \/ \E k \in Keys : GetTtl(k)
  \/ KeysCall
  \/ \E tl \in TagLists : TagKey("a", tl)
  \/ \E t \in Tags : GetKeysByTag(t)
  \/ Flush

SpecList == InitList /\ [][NextList]_vars

\* either driver with a default ttl and a sweep period, and MemoryDriver
\* without a sweep, written to and never read: time passes, and a due timer
\* fires (the event loop runs the callback of a timer that is due)
ConfigsSweep ==
  { [Options("memory", -1, 1, TRUE, "", 1) EXCEPT !.leak = 2 * MaxTicks],
    [Options("lru", 2, 1, TRUE, "p", 1) EXCEPT !.leak = 2 * MaxTicks],
    [Options("memory", -1, 1, TRUE, "", 0) EXCEPT !.leak = 2 * MaxTicks] }

InitSweep == InitWith(ConfigsSweep, {})

NextSweep ==
  \/ Tick
  \/ TimerWait
  \/ now < StartTime + MaxTicks * 1000
       /\ \E k \in Keys2, t \in {NoTtl, <<0>>} : Set(k, StrVal, t)
  \/ Sweep
  \/ Close

SpecSweep ==
  InitSweep /\ [][NextSweep]_vars
    /\ WF_vars(Tick) /\ WF_vars(TimerWait) /\ WF_vars(Sweep)

\* ------------------------------------------------------------ claims
NoneExpired == \A fk \in DOMAIN data : ~Passed(data[fk].t, now)

AtCapacity == cfg.maxKeys > 0 /\ Cardinality(DOMAIN data) = cfg.maxKeys

\* C1: in MemoryLRUDriver with maxKeys = N > 0, under get and set calls, a set
\* of a key that is not stored while N entries are stored removes exactly one
\* entry, the stored key whose most recent get hit or set is the oldest
\* (`used` records that order: a get hit and a set both make the key the most
\* recent).
C1_EvictsLeastRecentlyUsed ==
  (IsLRU /\ AtCapacity) =>
    /\ Len(used) = cfg.maxKeys
    /\ \A k \in Keys \ StoredKeys(Eng), v \in Values, t \in Ttls :
         StoredKeys(set(Eng, k, v, t).e)
           = (StoredKeys(Eng) \ {used[Len(used)]}) \cup {k}

\* a get hit on the older of two stored keys has made the younger one the
\* next to go
C1_Witness ==
  /\ IsLRU /\ AtCapacity
  /\ stats.hits = 1
  /\ used = <<"a", "b">>
  /\ run = <<>>
  /\ StoredKeys(set(Eng, "c", StrVal, NoTtl).e) = {"a", "c"}

\* C2: in MemoryLRUDriver with maxKeys = N > 0, after sets of more than N
\* distinct keys in a row and with no stored entry expired, keys() returns
\* exactly the N keys set last and getStats().keys is N.
C2_KeepsLastInserted ==
  (IsLRU /\ cfg.maxKeys > 0 /\ Len(run) > cfg.maxKeys /\ NoneExpired) =>
    /\ keys_(Eng).ret = {run[i] : i \in (Len(run) - cfg.maxKeys + 1)..Len(run)}
    /\ Cardinality(keys_(Eng).ret) = cfg.maxKeys
    /\ getStats(Eng).keys = cfg.maxKeys

C2_Witness ==
  /\ IsLRU /\ cfg.maxKeys = 2
  /\ run = <<"b", "c", "a">>
  /\ NoneExpired
  /\ keys_(Eng).ret = {"c", "a"}

C4_GetReturnsLastSet ==
  \A k \in Keys :
    get(Eng, k).ret = (IF k \in DOMAIN shadow THEN shadow[k].v ELSE Undefined)

\* C5: with deleteOnExpire at its default, an entry set at time s with ttl t > 0
\* is present before s + t, and from s + t on (that instant included) has is
\* false and get returns undefined and counts a miss.
C5_ExpiresAtTtl ==
  cfg.deleteOnExpire =>
    \A k \in DOMAIN shadow :
      /\ now < shadow[k].t => has(Eng, k).ret = TRUE
      /\ (shadow[k].t # 0 /\ now >= shadow[k].t) =>
           /\ has(Eng, k).ret = FALSE
           /\ get(Eng, k).ret = Undefined
           /\ get(Eng, k).e.stats.misses = stats.misses + 1

\* C6: an entry written with an explicit ttl of 0 (by set or by rememberForever)
\* never expires, whatever stdTTL is: it stays until deleted, flushed or evicted.
C6_ZeroTtlNeverExpires ==
  \A k \in DOMAIN shadow :
    shadow[k].t = 0 =>
      /\ has(Eng, k).ret = TRUE
      /\ get(Eng, k).ret = shadow[k].v
      /\ getTtl(Eng, k).ret = <<0>>
      /\ getFullKey(k) \in DOMAIN checkAllData(Eng).data

\* stdTTL is 1 s, a sweep has just run, and a key written with ttl 0 two
\* seconds ago is still stored
C6_Witness ==
  /\ cfg.stdTTL = 1
  /\ checkTimeout > now
  /\ \E k \in DOMAIN shadow : /\ shadow[k].t = 0
                                /\ shadow[k].since + 2000 = now
                                /\ getFullKey(k) \in DOMAIN data

\* key lists given to del: those of the calls, and one naming a key twice
DelLists == KeyLists \cup {<<"a", "a">>}

C9_FlushResets ==
  LET f == flush(Eng)
  IN /\ getStats(f) = ZeroStats
     /\ keys_(f).ret = {}
     /\ f.data = <<>>
     /\ f.head = Nil /\ f.tail = Nil /\ f.prev = <<>> /\ f.next = <<>>
     /\ DOMAIN f.tags = {}
     /\ \A k \in Keys2, v \in Values, t \in Tags :
          getKeysByTag(set(f, k, v, NoTtl).e, t).ret = {}

\* an engine with a stored tagged key and counted reads, about to be flushed
C9_Witness ==
  /\ stats.hits + stats.misses > 0
  /\ \E t \in DOMAIN tags : tags[t] \cap DOMAIN data # {}
  /\ flush(Eng).tags = <<>>

\* C10: take(k) is an atomic get-then-delete: of the concurrent takes of k that
\* follow one set of k, at most one returns its value.
C10_TakeAtMostOnce == \A k \in Keys : taken[k] <= 1

\* C11: mset is atomic towards other callers: while an mset is in progress no
\* call of another caller sees some entries of the batch written and others
\* not; every entry still to be written already reads as written.
C11_MSetNotSeenHalfway ==
  pend.op = "mset" =>
    \A i \in 1..Len(pend.rest) :
      /\ has(Eng, pend.rest[i].key).ret = TRUE
      /\ get(Eng, pend.rest[i].key).ret = pend.rest[i].value

\* the set and the uninterrupted mset of the configured store
StoreSet(k, v, t) == IF IsLegacy THEN Cache_set(Eng, k, v, t) ELSE set(Eng, k, v, t)

StoreMSet(b) == IF IsLegacy THEN Cache_mset(Eng, b) ELSE msetRun(Eng, b)

\* the stored keys a batch names, and the keys it names at all
BatchKeys(b) == {getFullKey(b[i].key) : i \in 1..Len(b)}

\* C12: in MemoryDriver and the legacy Cache the key limit applies to new keys
\* only: set of a stored key succeeds even when the store is full, replaces
\* value and expiry and leaves the key count as it was.
C12_OverwriteWhenFull ==
  (~IsLRU /\ cfg.maxKeys > 0 /\ Cardinality(DOMAIN data) = cfg.maxKeys) =>
    \A k \in StoredKeys(Eng), v \in Values :
      LET r == StoreSet(k, v, NoTtl)
      IN /\ ~r.threw
         /\ r.e.data[getFullKey(k)].v = v
         /\ DOMAIN r.e.data = DOMAIN data
         /\ r.e.stats.keys = stats.keys

C14_MSetRejectsOnProjectedTotal ==
  (cfg.driver = "memory" /\ cfg.maxKeys > 0) =>
    \A b \in CacheBatches :
      msetRun(Eng, b).threw <=> Cardinality(DOMAIN data \cup BatchKeys(b)) > cfg.maxKeys

\* C15: with no other call in between, mset in MemoryDriver and the legacy Cache
\* is all or nothing: when it raises the capacity error nothing has changed,
\* and when it does not every entry of the batch has been written.
C15_MSetAllOrNothing ==
  ~IsLRU =>
    \A b \in CacheBatches :
      LET r == StoreMSet(b)
      IN /\ r.threw => r.e = Eng
         /\ ~r.threw =>
              /\ BatchKeys(b) \subseteq DOMAIN r.e.data
              /\ \A i \in 1..Len(b) :
                   (\A j \in (i + 1)..Len(b) : b[j].key # b[i].key)
                     => r.e.data[getFullKey(b[i].key)].v = b[i].value
              /\ DOMAIN r.e.data = DOMAIN data \cup BatchKeys(b)

\* a MemoryDriver with room for three keys holding one: the batch of two is
\* rejected, the batch of one is written
C15_Witness ==
  /\ cfg.driver = "memory"
  /\ cfg.maxKeys = 3
  /\ StoredKeys(Eng) = {"a"}
  /\ msetRun(Eng, <<Entry("a", StrVal), Entry("b", NumVal)>>).threw
  /\ StoredKeys(msetRun(Eng, <<Entry("b", StrVal)>>).e) = {"a", "b"}

\* C16: with deleteOnExpire = false an entry whose expiry time has passed is
\* absent for every read (get gives undefined and counts a miss, has is false,
\* mget and keys leave it out, getTtl gives undefined) and yet stays stored.
C16_ExpiredReadsAbsent ==
  ~cfg.deleteOnExpire =>
    \A fk \in DOMAIN data :
      Passed(data[fk].t, now) =>
        LET k == stripPrefix(fk)
        IN /\ get(Eng, k).ret = Undefined
           /\ get(Eng, k).e.stats.misses = stats.misses + 1
           /\ has(Eng, k).ret = FALSE
           /\ mget(Eng, <<k>>).ret = {}
           /\ k \notin keys_(Eng).ret
           /\ getTtl(Eng, k).ret = <<>>
           /\ fk \in DOMAIN get(Eng, k).e.data

Live(fk) == fk \in DOMAIN data /\ ~Passed(data[fk].t, now)

\* C18: ttl(key, n) with n < 0 on a live key deletes the key: it returns true,
\* the entry is no longer stored, has(key) is false, and keys, ksize and vsize
\* are what del(key) would have left.
C18_NegativeTtlDeletes ==
  \A k \in Keys :
    Live(getFullKey(k)) =>
      LET r == ttl_(Eng, k, -1)
      IN /\ r.ret = TRUE
         /\ getFullKey(k) \notin DOMAIN r.e.data
         /\ has(r.e, k).ret = FALSE
         /\ r.e.stats = del(Eng, <<k>>).e.stats

\* C19: ttl(key, 0) on a live key of the legacy Cache gives it an infinite
\* lifetime: it returns true, the key stays stored with its value, and
\* getTtl(key) returns 0.
C19_ZeroTtlKeepsKey ==
  \A k \in Keys :
    Live(k) =>
      LET r == Cache_ttl(Eng, k, <<0>>)
      IN /\ r.ret = TRUE
         /\ k \in DOMAIN r.e.data
         /\ r.e.data[k].v = data[k].v
         /\ Cache_getTtl(r.e, k).ret = <<0>>

\* C20: keys() of the legacy Cache returns exactly the keys that are stored and
\* not expired at the time of the call.
C20_KeysAreLive ==
  Cache_keys(Eng).ret = {k \in DOMAIN data : ~Passed(data[k].t, now)}

\* C21: after close() has returned no sweep timer is pending and the sweep
\* never runs again, whatever is called on the engine afterwards (both drivers
\* and the legacy Cache).  The sweep runs only from a pending timer, so it is
\* enough that none is pending.
C21_NoTimerAfterClose == closed => checkTimeout = -1

\* the full keys in the set of a tag
Tagged(t) == IF t \in DOMAIN tags THEN tags[t] ELSE {}

\* C22: deleteByTag(t) deletes every live key tagged t and returns their
\* number, leaves every key not tagged t stored, and discards the tag's set
\* (no key is left in it): afterwards getKeysByTag(t) is empty and stays empty when a key is set again,
\* until tag() is called with t.
C22_DeleteByTagDiscards ==
  \A t \in Tags :
    LET r == deleteByTagRun(Eng, t)
        liveTagged == {fk \in Tagged(t) : Live(fk)}
    IN /\ r.ret = Cardinality(liveTagged)
       /\ DOMAIN r.e.data \cap liveTagged = {}
       /\ \A fk \in DOMAIN data \ Tagged(t) :
            fk \in DOMAIN r.e.data /\ r.e.data[fk] = data[fk]
       /\ t \in DOMAIN r.e.tags => r.e.tags[t] = {}
       /\ getKeysByTag(r.e, t).ret = {}
       /\ \A k \in Keys2, v \in Values :
            getKeysByTag(set(r.e, k, v, NoTtl).e, t).ret = {}

\* C23: tag(key, tags) returns false and leaves the tag index unchanged
\* whenever has(key) would return false; otherwise it returns true and adds the
\* key to the set of each named tag.
C23_TagNeedsLiveKey ==
  \A k \in Keys2, tl \in TagLists :
    LET r == tag_(Eng, k, tl)
    IN IF has(Eng, k).ret
       THEN /\ r.ret = TRUE
            /\ \A i \in 1..Len(tl) :
                 tl[i] \in DOMAIN r.e.tags /\ getFullKey(k) \in r.e.tags[tl[i]]
       ELSE /\ r.ret = FALSE
            /\ r.e.tags = tags

\* C24: getKeysByTag(t) returns exactly the keys that are live and tagged t:
\* never an expired, evicted or deleted key, and never a key on which tag(.., t)
\* has not been called since the key was last inserted (`marked` holds the
\* tag() calls made on a key that has been live ever since).
C24_TaggedAndLive ==
  \A t \in Tags :
    getKeysByTag(Eng, t).ret
      = {k \in Keys : Live(getFullKey(k)) /\ <<k, t>> \in marked}

\* key lists given to mget: those of the calls, and one naming a key twice
MGetLists == KeyLists \cup {<<"a", "a">>}

\* the hits and misses of an engine
Reads(e) == <<e.stats.hits, e.stats.misses>>

\* C25: in both drivers every get, and every key of an mget, adds exactly one
\* to exactly one of hits and misses (to hits iff a value is returned for the
\* key); has, keys, getTtl, ttl, tag, getKeysByTag, set and del leave hits and
\* misses as they are.
C25_HitsAndMisses ==
  /\ \A k \in Keys :
       LET r == get(Eng, k)
       IN Reads(r.e) = (IF r.ret # Undefined
                        THEN <<stats.hits + 1, stats.misses>>
                        ELSE <<stats.hits, stats.misses + 1>>)
  /\ \A ks \in MGetLists :
       LET r == mget(Eng, ks)
           found == Cardinality({i \in 1..Len(ks) : \E p \in r.ret : p[1] = ks[i]})
       IN Reads(r.e) = <<stats.hits + found, stats.misses + (Len(ks) - found)>>
  /\ \A k \in Keys :
       /\ Reads(has(Eng, k).e) = Reads(Eng)
       /\ Reads(getTtl(Eng, k).e) = Reads(Eng)
       /\ \A secs \in {-1, 0, 1} : Reads(ttl_(Eng, k, secs).e) = Reads(Eng)
       /\ \A tl \in TagLists : Reads(tag_(Eng, k, tl).e) = Reads(Eng)
       /\ \A v \in Values, t \in Ttls : Reads(set(Eng, k, v, t).e) = Reads(Eng)
  /\ Reads(keys_(Eng).e) = Reads(Eng)
  /\ \A t \in Tags : Reads(getKeysByTag(Eng, t).e) = Reads(Eng)
  /\ \A ks \in DelLists : Reads(del(Eng, ks).e) = Reads(Eng)

\* a miss has been counted, one key is stored and live and another has expired:
\* mget of b, a and c finds one and misses two
C25_Witness ==
  /\ stats.misses = 1
  /\ \E fk \in DOMAIN data : Passed(data[fk].t, now)
  /\ Cardinality(mget(Eng, <<"b", "a", "c">>).ret) = 1
  /\ Reads(mget(Eng, <<"b", "a", "c">>).e) = <<1, 3>>

\* C26: getStats() returns a snapshot copy (both drivers and the legacy
\* Cache): the object a caller got keeps the fields it was given and those the
\* caller wrote, whatever the engine does later, and a write to one of its
\* fields leaves the engine's counters, and so a later getStats(), as they are.
C26_StatsSnapshot ==
  held.kind # "none" =>
    /\ Deref(Eng, held) = heldWas
    /\ \A f \in StatFields, n \in {0, 1} :
         writeHeld(Eng, held, f, n).e.stats = stats

\* C27: in the legacy Cache del(keys[]) with an array that holds a key of an
\* invalid type raises the invalid-key-type error before any mutation: no key
\* of the array has been deleted and no counter has changed.
C27_DelValidatesFirst ==
  \A ks \in CacheDelLists :
    (\E i \in 1..Len(ks) : Cache_isInvalidKey(ks[i])) =>
      LET r == Cache_del(Eng, ks)
      IN r.threw /\ r.e.data = data /\ r.e.stats = stats

\* C28: in the legacy Cache under every option combination (maxPerformance
\* included) take(k) is single-use: once take(k) has returned a value, get(k),
\* has(k) and take(k) right after it report the key absent; and after del(k) or
\* flushAll() get(k) returns undefined.
C28_TakeIsSingleUse ==
  \A k \in Keys2 :
    LET t == Cache_take(Eng, k)
    IN /\ t.ret # Undefined =>
            /\ Cache_get(t.e, k).ret = Undefined
            /\ Cache_has(t.e, k).ret = FALSE
            /\ Cache_take(t.e, k).ret = Undefined
       /\ Cache_get(Cache_del(Eng, <<k>>).e, k).ret = Undefined
       /\ Cache_get(Cache_flushAll(Eng), k).ret = Undefined

\* the callers to whom acquire(resource) has returned true and who have not
\* released since
Holders(resource) == {p \in Tasks : task[p].pc = "held" /\ task[p].key = resource}

\* C29: CacheLock gives mutual exclusion: for any interleaving of concurrent
\* acquire / withLock calls at most one caller holds the lock of a resource at
\* a time.
C29_LockMutualExclusion ==
  \A resource \in Resources : Cardinality(Holders(resource)) <= 1

\* C30: RateLimiter(cache, M, window) limits each identifier to M allowed
\* attempts: while the counter key has not expired and reset() has not been
\* called, at most M check calls return limited = false, for any interleaving
\* of concurrent check calls.
C30_AtMostMaxAttempts ==
  \A id \in Identifiers : allowed[id] <= MaxAttempts

\* C31: namespaces of one CacheManager with different prefixes p and q are
\* isolated: a set, del or flush through namespace(p) changes neither what get,
\* has and keys return through namespace(q) nor what get and has return for the
\* un-namespaced key of the same name; and after namespace(p).flush() no key is
\* left in namespace(p).
C31_NamespacesIsolated ==
  \A p \in NsPrefixes :
    LET Same(e2, names) ==
          /\ \A q \in NsPrefixes \ {p} :
               /\ \A k \in NsKeyNames :
                    /\ Ns_get(e2, q, k).ret = Ns_get(Eng, q, k).ret
                    /\ Ns_has(e2, q, k).ret = Ns_has(Eng, q, k).ret
               /\ Ns_keys(e2, q).ret = Ns_keys(Eng, q).ret
          /\ \A k \in names :
               /\ get(e2, k).ret = get(Eng, k).ret
               /\ has(e2, k).ret = has(Eng, k).ret
    IN /\ \A k \in NsKeyNames, v \in Values : Same(Ns_set(Eng, p, k, v, NoTtl).e, {k})
       /\ \A k \in NsKeyNames : Same(Ns_del(Eng, p, <<k>>).e, {k})
       /\ Same(Ns_flushRun(Eng, p), NsKeyNames)
       /\ Ns_keys(Ns_flushRun(Eng, p), p).ret = {}
       /\ \A k \in NsKeyNames : ~Ns_has(Ns_flushRun(Eng, p), p, k).ret

\* C32: in every reachable state of either driver, every key held in a tag's
\* set is a key of the entry store, whichever way keys were removed before
\* (del, expiry on a read, the sweep, LRU eviction).
C32_TaggedKeysAreStored ==
  \A t \in DOMAIN tags : tags[t] \subseteq DOMAIN data

C34_SizesMatchStore ==
  /\ stats.ksize = SumOver([fk \in DOMAIN data |-> getKeySize(stripPrefix(fk))],
                           DOMAIN data, 0)
  /\ stats.vsize = SumOver([fk \in DOMAIN data |-> getValueSize(unwrap(data[fk], FALSE))],
                           DOMAIN data, 0)

\* C35: hits, misses, keys, ksize and vsize are all >= 0 in every reachable
\* state of either driver, for every configuration.
C35_StatsNonNegative ==
  \A f \in {"hits", "misses", "keys", "ksize", "vsize"} : stats[f] >= 0

\* the nodes met by following next from node n, at most `fuel` of them
RECURSIVE Walk(_, _)
Walk(n, fuel) ==
  IF n = Nil \/ fuel = 0 THEN <<>>
  ELSE IF n \notin DOMAIN next THEN <<n>>
  ELSE <<n>> \o Walk(next[n], fuel - 1)

\* C36: in every reachable state of MemoryLRUDriver, following next from head
\* visits exactly the nodes held in the key map, each once, and ends at tail;
\* prev is the inverse of next; head.prev and tail.next are null; head and
\* tail are null exactly when the map is empty.
C36_ListMatchesMap ==
  IsLRU =>
    LET stored == DOMAIN data
        w == Walk(head, Cardinality(stored) + 1)
    IN /\ Len(w) = Cardinality(stored)
       /\ Range(w) = stored
       /\ w # <<>> => w[Len(w)] = tail
       /\ \A k \in stored :
            /\ k \in DOMAIN next /\ k \in DOMAIN prev
            /\ next[k] # Nil => next[k] \in stored /\ prev[next[k]] = k
            /\ prev[k] # Nil => prev[k] \in stored /\ next[prev[k]] = k
       /\ head # Nil => head \in stored /\ prev[head] = Nil
       /\ tail # Nil => tail \in stored /\ next[tail] = Nil
       /\ (head = Nil) <=> (stored = {})
       /\ (tail = Nil) <=> (stored = {})

\* three nodes in the list, the one inserted first moved to the head by a get
\* hit, and an entry gone by expiry before (its sizes are still in vsize)
C36_Witness ==
  /\ IsLRU
  /\ Cardinality(DOMAIN data) = 3
  /\ stats.hits = 1
  /\ head = "a"
  /\ next["a"] = "c"
  /\ next["c"] = "b"
  /\ tail = "b"
  /\ stats.vsize > 6

\* the recency order of an engine: its stored keys from head to tail
RECURSIVE Chain(_, _, _)
Chain(e, n, fuel) ==
  IF n = Nil \/ fuel = 0 \/ n \notin DOMAIN e.next THEN <<>>
  ELSE <<n>> \o Chain(e, e.next[n], fuel - 1)

Recency(e) == Chain(e, e.head, Cardinality(DOMAIN e.data))

\* has, getTtl, tag on a live key, and keys and getKeysByTag while no stored
\* entry is expired, leave the recency order as it is
ReadsKeepRecency ==
  /\ \A k \in Keys :
       Live(getFullKey(k)) =>
         /\ Recency(has(Eng, k).e) = Recency(Eng)
         /\ Recency(getTtl(Eng, k).e) = Recency(Eng)
         /\ \A tl \in TagLists : Recency(tag_(Eng, k, tl).e) = Recency(Eng)
  /\ NoneExpired =>
       /\ Recency(keys_(Eng).e) = Recency(Eng)
       /\ \A t \in Tags : Recency(getKeysByTag(Eng, t).e) = Recency(Eng)

\* C37 as stated: in MemoryLRUDriver has, getTtl, ttl, keys, tag and
\* getKeysByTag applied to live keys leave the recency order unchanged, so the
\* key evicted by the next insert at capacity is the same as without the call.
C37_OnlyGetAndSetReorder ==
  IsLRU =>
    /\ ReadsKeepRecency
    /\ \A k \in Keys, secs \in {0, 1} :
         Live(getFullKey(k)) =>
           /\ Recency(ttl_(Eng, k, secs).e) = Recency(Eng)
           /\ ttl_(Eng, k, secs).e.tail = tail

\* C37, amended: in MemoryLRUDriver has, getTtl, keys, tag and getKeysByTag
\* applied to live keys leave the recency order unchanged; ttl on a live key
\* makes that key the most recently used, like a get hit or a set.
C37_TtlAlsoReorders ==
  IsLRU =>
    /\ ReadsKeepRecency
    /\ \A k \in Keys, secs \in {0, 1} :
         Live(getFullKey(k)) =>
           Recency(ttl_(Eng, k, secs).e)
             = <<getFullKey(k)>> \o Without(Recency(Eng), {getFullKey(k)})

\* a full list of two live, tagged keys: ttl on the least recently used one
\* takes it off the tail, has on it does not
C37_Witness ==
  /\ IsLRU /\ AtCapacity /\ NoneExpired
  /\ cfg.maxKeys = 2
  /\ tags # <<>>
  /\ tail = getFullKey("a")
  /\ has(Eng, "a").e.tail = getFullKey("a")
  /\ getKeysByTag(Eng, "t").ret # {}
  /\ ttl_(Eng, "a", 1).e.tail # getFullKey("a")
  /\ ttl_(Eng, "a", 1).e.head = getFullKey("a")

\* an entry of key k is stored past its expiry time in an engine that sweeps
\* and has not been closed
ExpiredUnderSweep(k) ==
  /\ cfg.checkPeriod > 0
  /\ cfg.deleteOnExpire
  /\ ~closed
  /\ getFullKey(k) \in DOMAIN data
  /\ Passed(data[getFullKey(k)].t, now)

\* C38: in both drivers with checkPeriod > 0 and deleteOnExpire = true, while
\* the engine is not closed a sweep timer is always pending (the sweep re-arms
\* itself after every pass), and every entry whose expiry time has passed is
\* eventually removed from the store though it is never read; with
\* checkPeriod = 0 no sweep is ever scheduled.
C38_SweepIsLive ==
  /\ [](cfg.checkPeriod = 0 => checkTimeout = -1)
  /\ []((cfg.checkPeriod > 0 /\ ~closed) => checkTimeout >= 0)
  /\ \A k \in Keys2 : ExpiredUnderSweep(k) ~> ~ExpiredUnderSweep(k)

\* the store emptied by the sweep: nothing was read, and only expiry removes
\* an entry and leaves its sizes in vsize
C38_Witness ==
  /\ cfg.checkPeriod > 0
  /\ ~closed
  /\ stats.hits + stats.misses = 0
  /\ DOMAIN data = {}
  /\ stats.vsize > 0
  /\ checkTimeout > now

\* C39: with deleteOnExpire = false a get of an expired entry changes neither
\* the store nor the size counters: the entry stays stored and stats.keys,
\* ksize and vsize are what they were (legacy Cache and both drivers).
C39_ExpiredReadKeepsCounters ==
  ~cfg.deleteOnExpire =>
    \A k \in Keys :
      (getFullKey(k) \in DOMAIN data /\ Passed(data[getFullKey(k)].t, now)) =>
        LET r == IF IsLegacy THEN Cache_get(Eng, k) ELSE get(Eng, k)
        IN /\ r.e.data = data
           /\ r.e.stats.keys = stats.keys
           /\ r.e.stats.ksize = stats.ksize
           /\ r.e.stats.vsize = stats.vsize

====
